---- MODULE Spec2Model ----
(***************************************************************************)
(* Verification model of transaction-api: the ledger services and their    *)
(* request validation, the event store, the event-sourced aggregates, the  *)
(* scheduled and the batch transactions, the circuit breaker, the fallback *)
(* executor, the worker pool with its statistics, the database router and  *)
(* ProcessTransaction / CancelTransaction.                                 *)
(*                                                                         *)
(* Money is float64 in the source; the model uses integers (one unit is    *)
(* the smallest amount), which keeps every comparison of the source exact. *)
(* Every database round trip of a handler is one step of the model, since  *)
(* the services use neither a database transaction nor a row lock around   *)
(* their read-modify-write sequences.                                      *)
(***************************************************************************)
EXTENDS Integers, Sequences, FiniteSets, TLC

VARIABLES
    balances,   \* balances table: user -> [exists, amount]
    txCount,    \* number of rows of the transactions table
    cl,         \* per request goroutine: position and locals of the running ledger call
    opCount,    \* ledger calls started so far
    net,        \* history: per user, the amount after the successful calls applied one after the other
    store,      \* event_store table: aggregate id -> rows in the order of their commit
    wr,         \* per caller of EventStore.SaveEvents: position and locals of the call
    esCalls,    \* SaveEvents calls started so far
    obj,        \* event-sourced aggregates held in memory
    aggOps,     \* operations run on the aggregates so far
    txn,        \* domain.Transaction objects held in memory
    sched,      \* scheduled_transactions table: id -> row
    now,        \* the clock
    sw,         \* per goroutine running ExecuteScheduledTransactions: position and locals
    cn,         \* the goroutine running CancelScheduledTransaction: position and locals
    schedOps,   \* scheduled-transaction service calls started and clock ticks so far
    batch,      \* batch_transactions table: id -> row
    items,      \* batch_transaction_items table: batch id -> rows in the order of their insert
    bc,         \* the goroutine running CreateBatchTransaction: position and locals
    bp,         \* per goroutine running ProcessBatchTransaction: position and locals
    bk,         \* the goroutine running CancelBatchTransaction: position and locals
    batchOps,   \* batch service calls started so far
    cb,         \* the CircuitBreaker: state, lastStateChange and counts
    mu,         \* CircuitBreaker.mu: the goroutines holding it for reading, and its writer
    countsMu,   \* Counts.mu: the goroutines holding it for reading, and its writer
    th,         \* per goroutine using the breaker: position and locals
    clock,      \* the clock read by the breaker
    cbCalls,    \* Execute calls started so far
    fcfg,       \* FallbackManager: its strategy and its FallbackConfig
    fcache,     \* FallbackCache.data: key -> entry
    fmu,        \* FallbackCache.mu: the goroutines holding it for reading, and its writer
    fx,         \* per goroutine running FallbackManager.Execute: position and locals
    ftime,      \* the clock read by the fallback cache
    fOps,       \* FallbackManager.Execute calls started so far
    pool,       \* TransactionWorkerPool: started, ctx, jobQueue, wg, and the jobs processed
    wk,         \* per TransactionWorker goroutine: position and job
    stp,        \* the goroutine calling TransactionWorkerPool.Stop: position
    sj,         \* the goroutine calling TransactionWorkerPool.SubmitJob: position and locals
    jobCount,   \* SubmitJob calls started so far
    dbc,        \* DatabaseCluster: config (nodes, failover flag) and connection handles
    up,         \* which database servers answer a ping or a connect
    checks,     \* the checkNodeHealth goroutines in flight
    dbGot,      \* the last handle returned by GetMasterDB or GetSlaveDB
    dbTicks,    \* ticks of the health ticker so far
    dbFlips,    \* servers going down or coming up so far
    schema,     \* per route: the request struct its ValidationMiddleware binds every request into
    ptx,        \* transactions table of transactionService: the state of the one row
    pbal,       \* balances table of balanceService: user -> amount
    pw,         \* per goroutine running ProcessTransaction: position and locals
    pcn,        \* the goroutine running CancelTransaction: position and locals
    transfers,  \* history: TransferFunds calls for the row that returned nil
    ptOps       \* ProcessTransaction and CancelTransaction calls started so far

ledgerVars == <<balances, txCount, cl, opCount, net>>

esVars == <<store, wr, esCalls>>

domVars == <<obj, aggOps, txn>>

schedVars == <<sched, now, sw, cn, schedOps>>

batchVars == <<batch, items, bc, bp, bk, batchOps>>

cbVars == <<cb, mu, countsMu, th, clock, cbCalls>>

fbVars == <<fcfg, fcache, fmu, fx, ftime, fOps>>

poolVars == <<pool, wk, stp, sj, jobCount>>

dbVars == <<dbc, up, checks, dbGot, dbTicks, dbFlips>>

reqVars == <<schema>>

ptVars == <<ptx, pbal, pw, pcn, transfers, ptOps>>

notLedgerReqVars == <<esVars, domVars, schedVars, batchVars, cbVars, fbVars, poolVars, dbVars, ptVars>>

notLedgerVars == <<esVars, domVars, schedVars, batchVars, cbVars, fbVars, poolVars, dbVars, reqVars, ptVars>>

notFbVars == <<ledgerVars, esVars, domVars, schedVars, batchVars, cbVars, poolVars, dbVars, reqVars, ptVars>>

notPoolVars == <<ledgerVars, esVars, domVars, schedVars, batchVars, cbVars, fbVars, dbVars, reqVars, ptVars>>

notDbVars == <<ledgerVars, esVars, domVars, schedVars, batchVars, cbVars, fbVars, poolVars, reqVars, ptVars>>

notReqVars == <<ledgerVars, esVars, domVars, schedVars, batchVars, cbVars, fbVars, poolVars, dbVars, ptVars>>

notPtVars == <<ledgerVars, esVars, domVars, schedVars, batchVars, cbVars, fbVars, poolVars, dbVars, reqVars>>

vars == <<balances, txCount, cl, opCount, net, store, wr, esCalls, obj, aggOps, txn,
          sched, now, sw, cn, schedOps, batch, items, bc, bp, bk, batchOps,
          cb, mu, countsMu, th, clock, cbCalls,
          fcfg, fcache, fmu, fx, ftime, fOps,
          pool, wk, stp, sj, jobCount,
          dbc, up, checks, dbGot, dbTicks, dbFlips,
          schema,
          ptx, pbal, pw, pcn, transfers, ptOps>>

(***************************************************************************)
(* Bounds                                                                  *)
(***************************************************************************)
MaxAmount == 1
MaxOps == 2
MaxAppends == 3
MaxBatch == 2
MaxAggOps == 4
MaxTime == 1
MaxSchedOps == 3
MaxBatchOps == 3
MaxItems == 2
MaxCalls == 4
MaxClock == 2
MaxFallbacks == 2
MaxExec == 2
MaxFTime == 2
MaxJobs == 2
QueueCap == 1
MaxTicks == 2
MaxFlips == 2
MaxFailovers == 2
MaxProcessOps == 3

Users == {"u1", "u2"}
Clients == {"c1", "c2"}

(***************************************************************************)
(* Ledger: domain.Balance and the two ledger services                      *)
(***************************************************************************)
NoBalance == [exists |-> FALSE, amount |-> 0]
BalanceRow(a) == [exists |-> TRUE, amount |-> a]

InitialBalances == [u \in Users |-> IF u = "u1" THEN BalanceRow(1) ELSE NoBalance]

\* binding:"required,gt=0" on TransactionRequest.Amount / TransferRequest.Amount
ValidationMiddleware(amount) == amount > 0

\* TransactionService.Debit / Transfer: if balance.Amount < amount
InsufficientBalance(bal, amount) == bal < amount

\* Balance.Add: the error it returns ("" is nil) and the amount afterwards
BalanceAdd(bal, amount) ==
    IF amount <= 0 THEN [err |-> "ErrInvalidAmount", amount |-> bal]
    ELSE [err |-> "", amount |-> bal + amount]

\* Balance.Subtract
BalanceSubtract(bal, amount) ==
    IF amount <= 0 THEN [err |-> "ErrInvalidAmount", amount |-> bal]
    ELSE IF bal < amount THEN [err |-> "ErrInsufficientBalance", amount |-> bal]
    ELSE [err |-> "", amount |-> bal - amount]

IdleClient ==
    [pc |-> "idle", svc |-> "", op |-> "", user |-> "u1", to |-> "u1", amt |-> 0,
     fromBal |-> 0, toBal |-> 0, res |-> "", wrote |-> {}]

Done(c, result) == [cl[c] EXCEPT !.pc = "done", !.res = result]

\* The request boundary of TransactionHandler.Credit/Debit/Transfer: the validated
\* request reaches the service, an invalid one is answered 400 by the middleware.
StartTransactionService(c) ==
    /\ cl[c].pc = "idle"
    /\ opCount < MaxOps
    /\ \E op \in {"Credit", "Debit", "Transfer"}, u \in Users, t \in Users, a \in 0..MaxAmount :
         /\ op # "Transfer" => t = u
         /\ opCount' = opCount + 1
         /\ IF ValidationMiddleware(a)
            THEN cl' = [cl EXCEPT ![c] = [IdleClient EXCEPT !.pc = "get", !.svc = "TransactionService",
                                              !.op = op, !.user = u, !.to = t, !.amt = a]]
            ELSE cl' = [cl EXCEPT ![c] = [IdleClient EXCEPT !.pc = "done", !.svc = "TransactionService",
                                              !.op = op, !.user = u, !.to = t, !.amt = a,
                                              !.res = "rejected"]]
    /\ UNCHANGED <<balances, txCount, net, notLedgerVars>>

\* balanceService.AddFunds / WithdrawFunds / TransferFunds are called with the amount
\* of the caller, which the service validates itself in Balance.Add / Subtract.
StartBalanceService(c) ==
    /\ cl[c].pc = "idle"
    /\ opCount < MaxOps
    /\ \E op \in {"AddFunds", "WithdrawFunds", "TransferFunds"}, u \in Users, t \in Users,
          a \in 0..MaxAmount :
         /\ op # "TransferFunds" => t = u
         /\ opCount' = opCount + 1
         /\ cl' = [cl EXCEPT ![c] = [IdleClient EXCEPT !.pc = "get", !.svc = "balanceService",
                                          !.op = op, !.user = u, !.to = t, !.amt = a]]
    /\ UNCHANGED <<balances, txCount, net, notLedgerVars>>

\* TransactionService.Credit: GetByUserID; on error a new balance is to be created
CreditGet(c) ==
    /\ cl[c].pc = "get" /\ cl[c].op = "Credit"
    /\ cl' = [cl EXCEPT ![c] =
                IF balances[cl[c].user].exists
                THEN [cl[c] EXCEPT !.pc = "txcreate", !.fromBal = balances[cl[c].user].amount]
                ELSE [cl[c] EXCEPT !.pc = "createbal", !.fromBal = 0]]
    /\ UNCHANGED <<balances, txCount, opCount, net, notLedgerVars>>

\* TransactionService.Credit: balanceRepo.Create (user_id carries a unique index)
CreditCreateBalance(c) ==
    /\ cl[c].pc = "createbal"
    /\ IF balances[cl[c].user].exists
       THEN /\ cl' = [cl EXCEPT ![c] = Done(c, "err")]
            /\ UNCHANGED balances
       ELSE /\ balances' = [balances EXCEPT ![cl[c].user] = BalanceRow(0)]
            /\ cl' = [cl EXCEPT ![c] = [cl[c] EXCEPT !.pc = "txcreate",
                                                     !.wrote = @ \cup {cl[c].user}]]
    /\ UNCHANGED <<txCount, opCount, net, notLedgerVars>>

\* TransactionService.Debit: GetByUserID and the check of the balance
DebitGet(c) ==
    /\ cl[c].pc = "get" /\ cl[c].op = "Debit"
    /\ cl' = [cl EXCEPT ![c] =
                IF ~balances[cl[c].user].exists THEN Done(c, "err")
                ELSE IF InsufficientBalance(balances[cl[c].user].amount, cl[c].amt)
                     THEN Done(c, "err")
                     ELSE [cl[c] EXCEPT !.pc = "txcreate",
                                        !.fromBal = balances[cl[c].user].amount]]
    /\ UNCHANGED <<balances, txCount, opCount, net, notLedgerVars>>

\* TransactionService.Transfer: GetByUserID(fromUserID) and the check of the balance
TransferGetFrom(c) ==
    /\ cl[c].pc = "get" /\ cl[c].op = "Transfer"
    /\ cl' = [cl EXCEPT ![c] =
                IF ~balances[cl[c].user].exists THEN Done(c, "err")
                ELSE IF InsufficientBalance(balances[cl[c].user].amount, cl[c].amt)
                     THEN Done(c, "err")
                     ELSE [cl[c] EXCEPT !.pc = "getto",
                                        !.fromBal = balances[cl[c].user].amount]]
    /\ UNCHANGED <<balances, txCount, opCount, net, notLedgerVars>>

\* TransactionService.Transfer: GetByUserID(toUserID)
TransferGetTo(c) ==
    /\ cl[c].pc = "getto" /\ cl[c].op = "Transfer"
    /\ cl' = [cl EXCEPT ![c] =
                IF ~balances[cl[c].to].exists THEN Done(c, "err")
                ELSE [cl[c] EXCEPT !.pc = "txcreate", !.toBal = balances[cl[c].to].amount]]
    /\ UNCHANGED <<balances, txCount, opCount, net, notLedgerVars>>

\* transactionRepo.Create(ctx, transaction)
TxCreate(c) ==
    /\ cl[c].pc = "txcreate"
    /\ txCount' = txCount + 1
    /\ cl' = [cl EXCEPT ![c] = [cl[c] EXCEPT !.pc = "update", !.wrote = @ \cup {"tx"}]]
    /\ UNCHANGED <<balances, opCount, net, notLedgerVars>>

\* The amount each call writes to the first balance: the amount it read, changed in memory
FirstWrite(r) ==
    IF r.op = "Credit" THEN r.fromBal + r.amt
    ELSE IF r.op \in {"Debit", "Transfer"} THEN r.fromBal - r.amt
    ELSE r.fromBal   \* balanceService: Add/Subtract already applied to the copy

\* balanceRepo.Update of the first (or only) balance: the whole row is written
UpdateFrom(c) ==
    /\ cl[c].pc = "update"
    /\ balances' = [balances EXCEPT ![cl[c].user] = BalanceRow(FirstWrite(cl[c]))]
    /\ cl' = [cl EXCEPT ![c] =
                IF cl[c].op \in {"Transfer", "TransferFunds"}
                THEN [cl[c] EXCEPT !.pc = "updateto", !.wrote = @ \cup {cl[c].user}]
                ELSE [Done(c, "ok") EXCEPT !.wrote = @ \cup {cl[c].user}]]
    /\ UNCHANGED <<txCount, opCount, net, notLedgerVars>>

\* Transfer / TransferFunds: balanceRepo.Update of the payee's balance
UpdateTo(c) ==
    /\ cl[c].pc = "updateto"
    /\ balances' = [balances EXCEPT ![cl[c].to] =
                      BalanceRow(IF cl[c].op = "Transfer" THEN cl[c].toBal + cl[c].amt
                                 ELSE cl[c].toBal)]
    /\ cl' = [cl EXCEPT ![c] = [Done(c, "ok") EXCEPT !.wrote = @ \cup {cl[c].to}]]
    /\ UNCHANGED <<txCount, opCount, net, notLedgerVars>>

\* balanceService.AddFunds: GetByUserID, then balance.Add on the copy
AddFundsGet(c) ==
    /\ cl[c].pc = "get" /\ cl[c].op = "AddFunds"
    /\ cl' = [cl EXCEPT ![c] =
                IF ~balances[cl[c].user].exists THEN Done(c, "err")
                ELSE LET r == BalanceAdd(balances[cl[c].user].amount, cl[c].amt)
                     IN IF r.err # "" THEN Done(c, "err")
                        ELSE [cl[c] EXCEPT !.pc = "update", !.fromBal = r.amount]]
    /\ UNCHANGED <<balances, txCount, opCount, net, notLedgerVars>>

\* balanceService.WithdrawFunds: GetByUserID, then balance.Subtract on the copy
WithdrawFundsGet(c) ==
    /\ cl[c].pc = "get" /\ cl[c].op = "WithdrawFunds"
    /\ cl' = [cl EXCEPT ![c] =
                IF ~balances[cl[c].user].exists THEN Done(c, "err")
                ELSE LET r == BalanceSubtract(balances[cl[c].user].amount, cl[c].amt)
                     IN IF r.err # "" THEN Done(c, "err")
                        ELSE [cl[c] EXCEPT !.pc = "update", !.fromBal = r.amount]]
    /\ UNCHANGED <<balances, txCount, opCount, net, notLedgerVars>>

\* balanceService.TransferFunds: GetByUserID(fromUserID)
TransferFundsGetFrom(c) ==
    /\ cl[c].pc = "get" /\ cl[c].op = "TransferFunds"
    /\ cl' = [cl EXCEPT ![c] =
                IF ~balances[cl[c].user].exists THEN Done(c, "err")
                ELSE [cl[c] EXCEPT !.pc = "getto", !.fromBal = balances[cl[c].user].amount]]
    /\ UNCHANGED <<balances, txCount, opCount, net, notLedgerVars>>

\* balanceService.TransferFunds: GetByUserID(toUserID), fromBalance.Subtract, toBalance.Add
TransferFundsGetTo(c) ==
    /\ cl[c].pc = "getto" /\ cl[c].op = "TransferFunds"
    /\ cl' = [cl EXCEPT ![c] =
                IF ~balances[cl[c].to].exists THEN Done(c, "err")
                ELSE LET s == BalanceSubtract(cl[c].fromBal, cl[c].amt)
                         a == BalanceAdd(balances[cl[c].to].amount, cl[c].amt)
                     IN IF s.err # "" \/ a.err # "" THEN Done(c, "err")
                        ELSE [cl[c] EXCEPT !.pc = "update", !.fromBal = s.amount,
                                           !.toBal = a.amount]]
    /\ UNCHANGED <<balances, txCount, opCount, net, notLedgerVars>>

\* What a call that returned nil does to balance u when it runs alone: the amount is
\* added or subtracted; a transfer to the payer itself writes the payee's copy last.
SerialDelta(r, u) ==
    IF r.res # "ok" THEN 0
    ELSE IF r.op \in {"Credit", "AddFunds"} THEN (IF u = r.user THEN r.amt ELSE 0)
    ELSE IF r.op \in {"Debit", "WithdrawFunds"} THEN (IF u = r.user THEN 0 - r.amt ELSE 0)
    ELSE IF r.user = r.to THEN (IF u = r.user THEN r.amt ELSE 0)
    ELSE IF u = r.user THEN 0 - r.amt
    ELSE IF u = r.to THEN r.amt
    ELSE 0

\* The call returns to its caller
Return(c) ==
    /\ cl[c].pc = "done"
    /\ net' = [u \in Users |-> net[u] + SerialDelta(cl[c], u)]
    /\ cl' = [cl EXCEPT ![c] = IdleClient]
    /\ UNCHANGED <<balances, txCount, opCount, notLedgerVars>>

\* A write to the database fails (connection lost, context cancelled, statement
\* timeout): the err != nil branch after Create / Update
DbFault(c) ==
    /\ cl[c].pc \in {"createbal", "txcreate", "update", "updateto"}
    /\ cl' = [cl EXCEPT ![c] = Done(c, "err")]
    /\ UNCHANGED <<balances, txCount, opCount, net, notLedgerVars>>

(***************************************************************************)
(* Event store: PostgresEventStore.SaveEvents                              *)
(*                                                                         *)
(* SaveEvents runs in a database transaction of the default isolation      *)
(* level: its SELECT MAX(version) takes no lock, its inserts become         *)
(* visible at commit, and event_store has no unique constraint on          *)
(* (aggregate_id, version) (the index of the migration is not unique).     *)
(* The read and the commit are therefore two steps.                        *)
(***************************************************************************)
AggregateIDs == {"a1", "a2"}
Writers == {"w1", "w2"}

\* json.RawMessage of an event: nil (present = FALSE) or an object with these keys
NoData == [present |-> FALSE, amount |-> 0, status |-> "", new_amount |-> 0, new_state |-> ""]

\* An event handed to SaveEvents by a caller of the EventStore interface
SomeEvent == [etype |-> "user.created", data |-> [NoData EXCEPT !.present = TRUE]]

Max(S) == CHOOSE x \in S : \A y \in S : y <= x

\* SELECT COALESCE(MAX(version), 0) FROM event_store WHERE aggregate_id = ?
CurrentVersion(st, a) ==
    IF Len(st[a]) = 0 THEN 0 ELSE Max({st[a][i].version : i \in 1..Len(st[a])})

VersionMismatch_OnlyBehind(currentVersion, expectedVersion) == currentVersion < expectedVersion
\* SaveEvents: if currentVersion != expectedVersion
VersionMismatch(currentVersion, expectedVersion) == currentVersion # expectedVersion

\* SaveEvents: one EventStoreModel per event, Version: expectedVersion + i + 1, Data: event.GetData()
EventRows(events, expectedVersion) ==
    [i \in 1..Len(events) |->
        [version |-> expectedVersion + i, etype |-> events[i].etype, data |-> events[i].data]]

\* The table after the transaction of SaveEvents committed its inserts
InsertEvents(st, a, events, expectedVersion) ==
    [st EXCEPT ![a] = @ \o EventRows(events, expectedVersion)]

IdleWriter ==
    [pc |-> "idle", agg |-> "a1", expected |-> 0, n |-> 0, observed |-> 0, res |-> "",
     inserted |-> 0, resend |-> FALSE]

\* The tuples (aggregateID, expectedVersion, number of events) that are stored: a batch
\* of n events appended with expectedVersion e left the versions e+1 .. e+n
Appended(st, a, e, n) ==
    \A v \in (e + 1)..(e + n) : \E i \in 1..Len(st[a]) : st[a][i].version = v

\* A caller enters SaveEvents(ctx, aggregateID, events, expectedVersion)
SaveEventsBegin(w) ==
    /\ wr[w].pc = "idle"
    /\ esCalls < MaxAppends
    /\ \E a \in AggregateIDs, e \in 0..MaxAppends, k \in 1..MaxBatch :
         wr' = [wr EXCEPT ![w] = [IdleWriter EXCEPT !.pc = "read", !.agg = a, !.expected = e,
                                                    !.n = k,
                                                    !.resend = Appended(store, a, e, k)]]
    /\ esCalls' = esCalls + 1
    /\ UNCHANGED <<store, ledgerVars, domVars, schedVars, batchVars, cbVars, fbVars, poolVars, dbVars, reqVars, ptVars>>

\* SaveEvents: the version query and the optimistic concurrency check
SaveEventsRead(w) ==
    /\ wr[w].pc = "read"
    /\ LET cur == CurrentVersion(store, wr[w].agg) IN
         wr' = [wr EXCEPT ![w] =
                  IF VersionMismatch(cur, wr[w].expected)
                  THEN [wr[w] EXCEPT !.pc = "done", !.observed = cur,
                                     !.res = "ConcurrentModification"]
                  ELSE [wr[w] EXCEPT !.pc = "insert", !.observed = cur]]
    /\ UNCHANGED <<store, esCalls, ledgerVars, domVars, schedVars, batchVars, cbVars, fbVars, poolVars, dbVars, reqVars, ptVars>>

\* SaveEvents: the inserts and the commit of the transaction
SaveEventsCommit(w) ==
    /\ wr[w].pc = "insert"
    /\ store' = InsertEvents(store, wr[w].agg, [i \in 1..wr[w].n |-> SomeEvent], wr[w].expected)
    /\ wr' = [wr EXCEPT ![w] = [wr[w] EXCEPT !.pc = "done", !.res = "ok", !.inserted = wr[w].n]]
    /\ UNCHANGED <<esCalls, ledgerVars, domVars, schedVars, batchVars, cbVars, fbVars, poolVars, dbVars, reqVars, ptVars>>

\* SaveEvents returns
SaveEventsReturn(w) ==
    /\ wr[w].pc = "done"
    /\ wr' = [wr EXCEPT ![w] = IdleWriter]
    /\ UNCHANGED <<store, esCalls, ledgerVars, domVars, schedVars, batchVars, cbVars, fbVars, poolVars, dbVars, reqVars, ptVars>>

InitEventStore ==
    /\ store = [a \in AggregateIDs |-> <<>>]
    /\ wr = [w \in Writers |-> IdleWriter]
    /\ esCalls = 0

NextEventStore ==
    \E w \in Writers :
        \/ SaveEventsBegin(w)
        \/ SaveEventsRead(w)
        \/ SaveEventsCommit(w)
        \/ SaveEventsReturn(w)

(***************************************************************************)
(* Event-sourced aggregates and their replay                               *)
(*                                                                         *)
(* An event in memory is its type, the json.RawMessage of BaseEvent.Data   *)
(* and the typed fields of its struct.  SaveEvents persists the type and   *)
(* Data only, and ApplyEvent and deserializeEvent decode Data only.        *)
(***************************************************************************)
AggObjs == {"o1", "o2"}

\* uuid.New() of the constructors: every object gets an id of its own
NewID(o) == IF o = "o1" THEN "a1" ELSE "a2"

TransactionStates == {"pending", "completed", "failed", "cancelled"}

NoObj ==
    [kind |-> "none", id |-> "a1", version |-> 0, amount |-> 0, status |-> "",
     uncommitted |-> <<>>, res |-> "", from |-> "", upd |-> ""]

\* NewBalanceCreatedEvent: Data is json.Marshal(balance)
NewBalanceCreatedEvent(amount) ==
    [etype |-> "balance.created",
     data |-> [NoData EXCEPT !.present = TRUE, !.amount = amount],
     new_amount |-> 0, new_state |-> ""]

\* NewBalanceUpdatedEvent: NewAmount is set, Data is not
NewBalanceUpdatedEvent(newAmount) ==
    [etype |-> "balance.updated", data |-> NoData, new_amount |-> newAmount, new_state |-> ""]

\* NewTransactionCreatedEvent: Data is json.Marshal(transaction)
NewTransactionCreatedEvent(amount, status) ==
    [etype |-> "transaction.created",
     data |-> [NoData EXCEPT !.present = TRUE, !.amount = amount, !.status = status],
     new_amount |-> 0, new_state |-> ""]

\* EventTransactionStateChangedEventType, for the three states UpdateState lets through
EventTransactionStateChangedEventType(state) == "transaction." \o state

\* NewTransactionStateChangedEvent: NewState is set, Data is not
NewTransactionStateChangedEvent(newState) ==
    [etype |-> EventTransactionStateChangedEventType(newState), data |-> NoData,
     new_amount |-> 0, new_state |-> newState]

\* EventSourcedTransaction.UpdateState: the switch over t.Status
EventSourcedUpdateStateErr(status, newState) ==
    IF status = "pending"
    THEN IF newState \notin {"completed", "failed", "cancelled"} THEN "ErrInvalidState" ELSE ""
    ELSE IF status \in {"completed", "failed", "cancelled"} THEN "ErrInvalidState" ELSE ""

\* Transaction.UpdateState: the switch over t.Status
UpdateStateErr(status, newState) ==
    IF status = "pending"
    THEN IF newState \notin {"completed", "failed", "cancelled"} THEN "ErrInvalidState" ELSE ""
    ELSE IF status \in {"completed", "failed", "rolled_back"} THEN "ErrInvalidState" ELSE ""

\* json.Unmarshal(event.GetData(), &v): fails on a nil RawMessage
UnmarshalErr(data) == IF data.present THEN "" ELSE "unexpected end of JSON input"

\* EventSourcedBalance.ApplyEvent and EventSourcedTransaction.ApplyEvent on the
\* fields (amount, status) of the aggregate being rebuilt
ApplyEvent(kind, st, event) ==
    IF kind = "balance" /\ event.etype = "balance.created"
    THEN IF UnmarshalErr(event.data) # "" THEN [st EXCEPT !.err = UnmarshalErr(event.data)]
         ELSE [st EXCEPT !.amount = event.data.amount]
    ELSE IF kind = "balance" /\ event.etype = "balance.updated"
    THEN IF UnmarshalErr(event.data) # "" THEN [st EXCEPT !.err = UnmarshalErr(event.data)]
         ELSE [st EXCEPT !.amount = event.data.new_amount]
    ELSE IF kind = "transaction" /\ event.etype = "transaction.created"
    THEN IF UnmarshalErr(event.data) # "" THEN [st EXCEPT !.err = UnmarshalErr(event.data)]
         ELSE [st EXCEPT !.amount = event.data.amount, !.status = event.data.status]
    ELSE IF kind = "transaction"
            /\ event.etype \in {"transaction.completed", "transaction.failed",
                                "transaction.cancelled"}
    THEN IF UnmarshalErr(event.data) # "" THEN [st EXCEPT !.err = UnmarshalErr(event.data)]
         ELSE [st EXCEPT !.status = event.data.new_state]
    ELSE [st EXCEPT !.err = "unknown event type"]

\* LoadFromHistory: ApplyEvent over the events in order, stopping at the first error
RECURSIVE LoadFromHistory(_, _, _)
LoadFromHistory(kind, st, events) ==
    IF events = <<>> THEN st
    ELSE LET next == ApplyEvent(kind, st, Head(events)) IN
         IF next.err # "" THEN next ELSE LoadFromHistory(kind, next, Tail(events))

\* &EventSourcedBalance{} and &EventSourcedTransaction{}: the zero value
ZeroAggregate == [err |-> "", amount |-> 0, status |-> ""]

\* deserializeEvent: decodes model.Data for the event types it knows
DeserializeErr(row) ==
    IF row.etype \in {"transaction.created", "transaction.completed", "transaction.failed",
                      "transaction.cancelled", "balance.created", "balance.updated"}
    THEN UnmarshalErr(row.data)
    ELSE ""

\* GetEvents: the rows of the aggregate ORDER BY version ASC
RECURSIVE RowsUpTo(_, _, _)
RowsUpTo(st, a, v) ==
    IF v = 0 THEN <<>>
    ELSE RowsUpTo(st, a, v - 1) \o SelectSeq(st[a], LAMBDA r : r.version = v)

GetEvents(st, a) == RowsUpTo(st, a, CurrentVersion(st, a))

\* EventRepository.GetBalance and GetTransaction: GetEvents, then LoadFromHistory
GetAggregate(kind, st, a) ==
    LET rows == GetEvents(st, a) IN
    IF \E i \in 1..Len(rows) : DeserializeErr(rows[i]) # ""
    THEN [ZeroAggregate EXCEPT !.err = "failed to deserialize event"]
    ELSE IF Len(rows) = 0 THEN [ZeroAggregate EXCEPT !.err = "sql.ErrNoRows"]
    ELSE LoadFromHistory(kind, ZeroAggregate, rows)

\* NewEventSourcedBalance(userID, initialAmount, currency)
NewEventSourcedBalance(o) ==
    /\ obj[o].kind = "none"
    /\ aggOps < MaxAggOps
    /\ \E a \in (0 - 1)..MaxAmount :
         obj' = [obj EXCEPT ![o] =
                   IF a < 0 THEN [NoObj EXCEPT !.res = "ErrInvalidAmount"]
                   ELSE [NoObj EXCEPT !.kind = "balance", !.id = NewID(o), !.amount = a,
                                      !.uncommitted = <<NewBalanceCreatedEvent(a)>>,
                                      !.res = "ok"]]
    /\ aggOps' = aggOps + 1
    /\ UNCHANGED <<txn, esVars, ledgerVars, schedVars, batchVars, cbVars, fbVars, poolVars, dbVars, reqVars, ptVars>>

\* NewEventSourcedTransaction(userID, amount, description)
NewEventSourcedTransaction(o) ==
    /\ obj[o].kind = "none"
    /\ aggOps < MaxAggOps
    /\ \E a \in 0..MaxAmount :
         obj' = [obj EXCEPT ![o] =
                   IF a <= 0 THEN [NoObj EXCEPT !.res = "ErrInvalidAmount"]
                   ELSE [NoObj EXCEPT !.kind = "transaction", !.id = NewID(o), !.amount = a,
                                      !.status = "pending",
                                      !.uncommitted = <<NewTransactionCreatedEvent(a, "pending")>>,
                                      !.res = "ok"]]
    /\ aggOps' = aggOps + 1
    /\ UNCHANGED <<txn, esVars, ledgerVars, schedVars, batchVars, cbVars, fbVars, poolVars, dbVars, reqVars, ptVars>>

\* EventSourcedBalance.Add(amount, transactionID)
EventSourcedBalanceAdd(o) ==
    /\ obj[o].kind = "balance"
    /\ aggOps < MaxAggOps
    /\ \E a \in 0..MaxAmount :
         obj' = [obj EXCEPT ![o] =
                   IF a <= 0 THEN [@ EXCEPT !.res = "ErrInvalidAmount"]
                   ELSE [@ EXCEPT !.amount = @ + a,
                                  !.uncommitted = Append(@, NewBalanceUpdatedEvent(obj[o].amount + a)),
                                  !.res = "ok"]]
    /\ aggOps' = aggOps + 1
    /\ UNCHANGED <<txn, esVars, ledgerVars, schedVars, batchVars, cbVars, fbVars, poolVars, dbVars, reqVars, ptVars>>

\* EventSourcedBalance.Subtract(amount, transactionID)
EventSourcedBalanceSubtract(o) ==
    /\ obj[o].kind = "balance"
    /\ aggOps < MaxAggOps
    /\ \E a \in 0..MaxAmount :
         obj' = [obj EXCEPT ![o] =
                   IF a <= 0 THEN [@ EXCEPT !.res = "ErrInvalidAmount"]
                   ELSE IF obj[o].amount < a THEN [@ EXCEPT !.res = "ErrInsufficientBalance"]
                   ELSE [@ EXCEPT !.amount = @ - a,
                                  !.uncommitted = Append(@, NewBalanceUpdatedEvent(obj[o].amount - a)),
                                  !.res = "ok"]]
    /\ aggOps' = aggOps + 1
    /\ UNCHANGED <<txn, esVars, ledgerVars, schedVars, batchVars, cbVars, fbVars, poolVars, dbVars, reqVars, ptVars>>

\* EventSourcedTransaction.UpdateState(newState, reason)
EventSourcedTransactionUpdateState(o) ==
    /\ obj[o].kind = "transaction"
    /\ aggOps < MaxAggOps
    /\ \E newState \in TransactionStates :
         obj' = [obj EXCEPT ![o] =
                   IF EventSourcedUpdateStateErr(obj[o].status, newState) # ""
                   THEN [@ EXCEPT !.from = obj[o].status, !.upd = "ErrInvalidState",
                                  !.res = "ErrInvalidState"]
                   ELSE [@ EXCEPT !.status = newState, !.from = obj[o].status,
                                  !.uncommitted = Append(@, NewTransactionStateChangedEvent(newState)),
                                  !.upd = "ok", !.res = "ok"]]
    /\ aggOps' = aggOps + 1
    /\ UNCHANGED <<txn, esVars, ledgerVars, schedVars, batchVars, cbVars, fbVars, poolVars, dbVars, reqVars, ptVars>>

\* EventRepository.Save(ctx, aggregate): SaveEvents with the version of the aggregate,
\* then MarkEventsAsCommitted.  Every object has an aggregate id of its own, so no
\* other call touches its rows between the version query and the commit.
EventRepositorySave(o) ==
    /\ obj[o].kind # "none"
    /\ aggOps < MaxAggOps
    /\ aggOps' = aggOps + 1
    /\ IF obj[o].uncommitted = <<>>
       THEN /\ obj' = [obj EXCEPT ![o].res = "ok"]
            /\ UNCHANGED store
       ELSE IF VersionMismatch(CurrentVersion(store, obj[o].id), obj[o].version)
       THEN /\ obj' = [obj EXCEPT ![o].res = "ConcurrentModification"]
            /\ UNCHANGED store
       ELSE /\ store' = InsertEvents(store, obj[o].id, obj[o].uncommitted, obj[o].version)
            /\ obj' = [obj EXCEPT ![o].uncommitted = <<>>, ![o].version = @ + 1,
                                  ![o].res = "ok"]
    /\ UNCHANGED <<txn, wr, esCalls, ledgerVars, schedVars, batchVars, cbVars, fbVars, poolVars, dbVars, reqVars, ptVars>>

Transactions == {"t1", "t2"}

NoTransaction == [status |-> "", from |-> "", res |-> ""]

\* NewTransaction(userID, amount, description)
NewTransaction(t) ==
    /\ txn[t].status = ""
    /\ \E a \in 0..MaxAmount :
         txn' = [txn EXCEPT ![t] =
                   IF a <= 0 THEN [NoTransaction EXCEPT !.res = "ErrInvalidAmount"]
                   ELSE [status |-> "pending", from |-> "", res |-> "created"]]
    /\ UNCHANGED <<obj, aggOps, esVars, ledgerVars, schedVars, batchVars, cbVars, fbVars, poolVars, dbVars, reqVars, ptVars>>

\* Transaction.UpdateState(newState)
TransactionUpdateState(t) ==
    /\ txn[t].status # ""
    /\ \E newState \in TransactionStates :
         txn' = [txn EXCEPT ![t] =
                   IF UpdateStateErr(txn[t].status, newState) # ""
                   THEN [@ EXCEPT !.from = txn[t].status, !.res = "ErrInvalidState"]
                   ELSE [status |-> newState, from |-> txn[t].status, res |-> "ok"]]
    /\ UNCHANGED <<obj, aggOps, esVars, ledgerVars, schedVars, batchVars, cbVars, fbVars, poolVars, dbVars, reqVars, ptVars>>

InitDomain ==
    /\ obj = [o \in AggObjs |-> NoObj]
    /\ aggOps = 0
    /\ txn = [t \in Transactions |-> NoTransaction]

NextDomain ==
    \/ \E o \in AggObjs :
         \/ NewEventSourcedBalance(o)
         \/ NewEventSourcedTransaction(o)
         \/ EventSourcedBalanceAdd(o)
         \/ EventSourcedBalanceSubtract(o)
         \/ EventSourcedTransactionUpdateState(o)
         \/ EventRepositorySave(o)
    \/ \E t \in Transactions :
         \/ NewTransaction(t)
         \/ TransactionUpdateState(t)

(***************************************************************************)
(* Scheduled transactions: ScheduledTransactionServiceImpl                 *)
(*                                                                         *)
(* A sweep queries the due pending rows once and then works on its copies  *)
(* of them; every repository call is one step, and scheduledRepo.Update    *)
(* (gorm Save) writes the whole copy back over the row.                    *)
(***************************************************************************)
SchedIDs == {"s1", "s2"}
Sweepers == {"k1", "k2"}

\* NewScheduledTransaction: maxRetries := 3 unless the request gives one
DefaultMaxRetries == 3

NoSched ==
    [exists |-> FALSE, ttype |-> "", user |-> "u1", to |-> "u1", amount |-> 0,
     scheduledAt |-> 0, status |-> "", retryCount |-> 0, maxRetries |-> 0]

\* GetPendingScheduledTransactions without the condition on the status
IsPendingDue_AnyStatus(row, t) == row.exists /\ row.scheduledAt <= t
\* GetPendingScheduledTransactions: WHERE status = 'pending' AND scheduled_at <= now
IsPendingDue(row, t) == row.exists /\ row.status = "pending" /\ row.scheduledAt <= t

\* The ids of the result set in an order the ORDER BY scheduled_at ASC allows
PendingLists(t) ==
    LET due == {i \in SchedIDs : IsPendingDue(sched[i], t)} IN
    {l \in UNION {[1..n -> due] : n \in 0..Cardinality(SchedIDs)} :
        /\ Len(l) = Cardinality(due)
        /\ \A a, b \in 1..Len(l) : a < b =>
             (l[a] # l[b] /\ sched[l[a]].scheduledAt <= sched[l[b]].scheduledAt)}

\* ScheduledTransaction.CanRetry
CanRetry(st) == st.status = "failed" /\ st.retryCount < st.maxRetries

\* ScheduledTransaction.IncrementRetry
IncrementRetry(st) == [st EXCEPT !.retryCount = @ + 1]

\* ScheduledTransaction.UpdateStatus
UpdateStatus(st, status) == [st EXCEPT !.status = status]

\* executeScheduledTransaction: the branch taken when the ledger operation returned an error
OnExecutionError(st) ==
    LET r == IncrementRetry(st) IN
    IF CanRetry(r) THEN UpdateStatus(r, "failed") ELSE UpdateStatus(r, "cancelled")

IdleSweeper ==
    [pc |-> "idle", list |-> <<>>, cur |-> NoSched, id |-> "s1", fromBal |-> 0, toBal |-> 0,
     retry0 |-> 0, outcome |-> ""]

IdleCanceller == [pc |-> "idle", id |-> "s1", cur |-> NoSched]

\* CreateScheduledTransaction(ctx, userID, req); the ids of the rows are fresh, and
\* the model hands them out in the order s1, s2
CreateScheduledTransaction(i) ==
    /\ ~sched[i].exists
    /\ i = "s2" => sched["s1"].exists
    /\ schedOps < MaxSchedOps
    /\ schedOps' = schedOps + 1
    /\ \E ty \in {"CREDIT", "DEBIT", "TRANSFER"}, u \in Users, to \in Users, a \in 0..MaxAmount,
          at \in 0..MaxTime, mr \in {1, DefaultMaxRetries} :
         /\ a > 0
         /\ ~(at < now)
         /\ ty # "TRANSFER" => to = u
         /\ sched' = [sched EXCEPT ![i] =
                        [exists |-> TRUE, ttype |-> ty, user |-> u, to |-> to,
                         amount |-> a, scheduledAt |-> at, status |-> "pending",
                         retryCount |-> 0, maxRetries |-> mr]]
    /\ UNCHANGED <<now, sw, cn, ledgerVars, esVars, domVars, batchVars, cbVars, fbVars, poolVars, dbVars, reqVars, ptVars>>

\* time passes
Tick ==
    /\ now < MaxTime
    /\ schedOps < MaxSchedOps
    /\ schedOps' = schedOps + 1
    /\ now' = now + 1
    /\ UNCHANGED <<sched, sw, cn, ledgerVars, esVars, domVars, batchVars, cbVars, fbVars, poolVars, dbVars, reqVars, ptVars>>

\* ExecuteScheduledTransactions: GetPendingScheduledTransactions; a sweep is the
\* goroutine k2 only while another sweep, k1, is running
SweepQuery(k) ==
    /\ sw[k].pc = "idle"
    /\ k = "k2" => sw["k1"].pc # "idle"
    /\ schedOps < MaxSchedOps
    /\ \E l \in PendingLists(now) :
         sw' = [sw EXCEPT ![k] = [IdleSweeper EXCEPT !.pc = "loop",
                                                     !.list = [j \in 1..Len(l) |->
                                                                 [id |-> l[j], row |-> sched[l[j]]]]]]
    /\ schedOps' = schedOps + 1
    /\ UNCHANGED <<sched, now, cn, ledgerVars, esVars, domVars, batchVars, cbVars, fbVars, poolVars, dbVars, reqVars, ptVars>>

\* The copy a sweep works on after its ledger operation returned
Finish(k, st, outcome) ==
    [sw[k] EXCEPT !.pc = "loop", !.cur = st, !.outcome = outcome, !.fromBal = 0, !.toBal = 0]

\* executeScheduledTransaction: NewTransaction, then the first GetByUserID of
\* processCreditTransaction, processDebitTransaction or processTransferTransaction
ExecGet(k) ==
    /\ sw[k].pc = "loop"
    /\ sw[k].list # <<>>
    /\ LET it == Head(sw[k].list)
           st == it.row
           bal == balances[st.user]
           begun == [sw[k] EXCEPT !.list = Tail(@), !.id = it.id, !.cur = st,
                                  !.retry0 = st.retryCount, !.outcome = "",
                                  !.fromBal = bal.amount, !.toBal = 0]
       IN
       IF st.amount <= 0
       THEN \* NewTransaction fails: UpdateStatus("failed"); scheduledRepo.Update
            /\ sw' = [sw EXCEPT ![k] = [begun EXCEPT !.cur = UpdateStatus(st, "failed"),
                                                     !.outcome = "invalid"]]
            /\ sched' = [sched EXCEPT ![it.id] = UpdateStatus(st, "failed")]
       ELSE /\ sched' = sched
            /\ sw' = [sw EXCEPT ![k] =
                 IF ~bal.exists THEN [begun EXCEPT !.pc = "fail"]
                 ELSE IF st.ttype = "CREDIT"
                 THEN IF BalanceAdd(bal.amount, st.amount).err # "" THEN [begun EXCEPT !.pc = "fail"]
                      ELSE [begun EXCEPT !.pc = "update",
                                         !.fromBal = BalanceAdd(bal.amount, st.amount).amount]
                 ELSE IF st.ttype = "DEBIT"
                 THEN IF BalanceSubtract(bal.amount, st.amount).err # ""
                      THEN [begun EXCEPT !.pc = "fail"]
                      ELSE [begun EXCEPT !.pc = "update",
                                         !.fromBal = BalanceSubtract(bal.amount, st.amount).amount]
                 ELSE [begun EXCEPT !.pc = "getto"]]
    /\ UNCHANGED <<now, cn, schedOps, balances, txCount, cl, opCount, net, esVars, domVars, batchVars, cbVars, fbVars, poolVars, dbVars, reqVars, ptVars>>

\* processTransferTransaction: the second GetByUserID, then Subtract and Add
ExecGetTo(k) ==
    /\ sw[k].pc = "getto"
    /\ LET st == sw[k].cur
           bal == balances[st.to]
       IN
       sw' = [sw EXCEPT ![k] =
                IF ~bal.exists THEN [@ EXCEPT !.pc = "fail"]
                ELSE IF BalanceSubtract(sw[k].fromBal, st.amount).err # ""
                THEN [@ EXCEPT !.pc = "fail"]
                ELSE IF BalanceAdd(bal.amount, st.amount).err # ""
                THEN [@ EXCEPT !.pc = "fail"]
                ELSE [@ EXCEPT !.pc = "update",
                               !.fromBal = BalanceSubtract(sw[k].fromBal, st.amount).amount,
                               !.toBal = BalanceAdd(bal.amount, st.amount).amount]]
    /\ UNCHANGED <<sched, now, cn, schedOps, ledgerVars, esVars, domVars, batchVars, cbVars, fbVars, poolVars, dbVars, reqVars, ptVars>>

\* balanceRepo.Update of the balance of the user of the scheduled transaction
ExecUpdate(k) ==
    /\ sw[k].pc = "update"
    /\ balances' = [balances EXCEPT ![sw[k].cur.user] = BalanceRow(sw[k].fromBal)]
    /\ sw' = [sw EXCEPT ![k].pc = IF sw[k].cur.ttype = "TRANSFER" THEN "updateto" ELSE "create"]
    /\ UNCHANGED <<sched, now, cn, schedOps, txCount, cl, opCount, net, esVars, domVars, batchVars, cbVars, fbVars, poolVars, dbVars, reqVars, ptVars>>

\* processTransferTransaction: balanceRepo.Update of the destination balance
ExecUpdateTo(k) ==
    /\ sw[k].pc = "updateto"
    /\ balances' = [balances EXCEPT ![sw[k].cur.to] = BalanceRow(sw[k].toBal)]
    /\ sw' = [sw EXCEPT ![k].pc = "create"]
    /\ UNCHANGED <<sched, now, cn, schedOps, txCount, cl, opCount, net, esVars, domVars, batchVars, cbVars, fbVars, poolVars, dbVars, reqVars, ptVars>>

\* transactionRepo.Create of the completed transaction
ExecCreate(k) ==
    /\ sw[k].pc = "create"
    /\ txCount' = txCount + 1
    /\ sw' = [sw EXCEPT ![k].pc = "succeed"]
    /\ UNCHANGED <<sched, now, cn, schedOps, balances, cl, opCount, net, esVars, domVars, batchVars, cbVars, fbVars, poolVars, dbVars, reqVars, ptVars>>

\* executeScheduledTransaction: UpdateStatus("completed"); scheduledRepo.Update
ExecSucceed(k) ==
    /\ sw[k].pc = "succeed"
    /\ sched' = [sched EXCEPT ![sw[k].id] = UpdateStatus(sw[k].cur, "completed")]
    /\ sw' = [sw EXCEPT ![k] = Finish(k, UpdateStatus(sw[k].cur, "completed"), "ok")]
    /\ UNCHANGED <<now, cn, schedOps, ledgerVars, esVars, domVars, batchVars, cbVars, fbVars, poolVars, dbVars, reqVars, ptVars>>

\* executeScheduledTransaction: IncrementRetry, CanRetry, UpdateStatus; scheduledRepo.Update
ExecFail(k) ==
    /\ sw[k].pc = "fail"
    /\ sched' = [sched EXCEPT ![sw[k].id] = OnExecutionError(sw[k].cur)]
    /\ sw' = [sw EXCEPT ![k] = Finish(k, OnExecutionError(sw[k].cur), "err")]
    /\ UNCHANGED <<now, cn, schedOps, ledgerVars, esVars, domVars, batchVars, cbVars, fbVars, poolVars, dbVars, reqVars, ptVars>>

\* ExecuteScheduledTransactions returns after the last element
SweepReturn(k) ==
    /\ sw[k].pc = "loop"
    /\ sw[k].list = <<>>
    /\ sw' = [sw EXCEPT ![k] = IdleSweeper]
    /\ UNCHANGED <<sched, now, cn, schedOps, ledgerVars, esVars, domVars, batchVars, cbVars, fbVars, poolVars, dbVars, reqVars, ptVars>>

\* CancelScheduledTransaction: scheduledRepo.GetByID
CancelGet ==
    /\ cn.pc = "idle"
    /\ schedOps < MaxSchedOps
    /\ schedOps' = schedOps + 1
    /\ \E i \in SchedIDs :
         /\ sched[i].exists
         /\ sched[i].status # "cancelled"
         /\ cn' = [pc |-> "update", id |-> i, cur |-> sched[i]]
    /\ UNCHANGED <<sched, now, sw, ledgerVars, esVars, domVars, batchVars, cbVars, fbVars, poolVars, dbVars, reqVars, ptVars>>

\* CancelScheduledTransaction: UpdateStatus("cancelled"); scheduledRepo.Update
CancelUpdate ==
    /\ cn.pc = "update"
    /\ sched' = [sched EXCEPT ![cn.id] = UpdateStatus(cn.cur, "cancelled")]
    /\ cn' = IdleCanceller
    /\ UNCHANGED <<now, sw, schedOps, ledgerVars, esVars, domVars, batchVars, cbVars, fbVars, poolVars, dbVars, reqVars, ptVars>>

InitScheduled ==
    /\ sched = [i \in SchedIDs |-> NoSched]
    /\ now = 0
    /\ sw = [k \in Sweepers |-> IdleSweeper]
    /\ cn = IdleCanceller
    /\ schedOps = 0

NextScheduled ==
    \/ \E i \in SchedIDs : CreateScheduledTransaction(i)
    \/ Tick
    \/ \E k \in Sweepers :
         \/ SweepQuery(k)
         \/ ExecGet(k)
         \/ ExecGetTo(k)
         \/ ExecUpdate(k)
         \/ ExecUpdateTo(k)
         \/ ExecCreate(k)
         \/ ExecSucceed(k)
         \/ ExecFail(k)
         \/ SweepReturn(k)
    \/ CancelGet
    \/ CancelUpdate

\* The service with nobody calling CancelScheduledTransaction
NextScheduledSweeps ==
    \/ \E i \in SchedIDs : CreateScheduledTransaction(i)
    \/ Tick
    \/ \E k \in Sweepers :
         \/ SweepQuery(k)
         \/ ExecGet(k)
         \/ ExecGetTo(k)
         \/ ExecUpdate(k)
         \/ ExecUpdateTo(k)
         \/ ExecCreate(k)
         \/ ExecSucceed(k)
         \/ ExecFail(k)
         \/ SweepReturn(k)

(***************************************************************************)
(* Batch transactions: BatchTransactionServiceImpl                         *)
(*                                                                         *)
(* Every repository call is one step; batchRepo.Update and                 *)
(* batchItemRepo.Update write the whole copy the caller holds.             *)
(***************************************************************************)
BatchIDs == {"b1"}
Processors == {"p1", "p2"}

NoBatch == [exists |-> FALSE, ttype |-> "", user |-> "u1", status |-> "", total |-> 0, count |-> 0]

IdleCreator == [pc |-> "idle", id |-> "b1", req |-> <<>>, total |-> 0, res |-> ""]

IdleProcessor ==
    [pc |-> "idle", id |-> "b1", cur |-> NoBatch, list |-> <<>>, idx |-> 0, amount |-> 0,
     newBal |-> 0, successCount |-> 0, failedCount |-> 0, res |-> ""]

IdleBatchCanceller == [pc |-> "idle", id |-> "b1", cur |-> NoBatch, res |-> ""]

RECURSIVE SumAmounts(_)
\* NewBatchTransaction: totalAmount += item.Amount over the items of the request
SumAmounts(amounts) ==
    IF amounts = <<>> THEN 0 ELSE Head(amounts) + SumAmounts(Tail(amounts))

\* NewBatchTransaction: the checks on the request (no item over the 1000 allowed is modelled)
NewBatchTransactionErr(amounts) ==
    IF Len(amounts) = 0 THEN "ErrInvalidBatchItems"
    ELSE IF \E j \in 1..Len(amounts) : amounts[j] <= 0 THEN "ErrInvalidAmount"
    ELSE ""

\* The requests a caller may send: up to MaxItems items
BatchRequests == UNION {[1..n -> 0..MaxAmount] : n \in 0..MaxItems}

\* BatchTransaction.UpdateStatus
BatchUpdateStatus(bt, status) == [bt EXCEPT !.status = status]

\* ProcessBatchTransaction: the status chosen from the two counters
FinalStatus(successCount, failedCount) ==
    IF failedCount = 0 THEN "completed"
    ELSE IF successCount = 0 THEN "failed"
    ELSE "partial"

\* CreateBatchTransaction: NewBatchTransaction and batchRepo.Create
BatchCreate(b) ==
    /\ bc.pc = "idle"
    /\ ~batch[b].exists
    /\ batchOps < MaxBatchOps
    /\ batchOps' = batchOps + 1
    /\ \E ty \in {"CREDIT", "DEBIT", "TRANSFER"}, u \in Users, req \in BatchRequests :
         IF NewBatchTransactionErr(req) # ""
         THEN /\ bc' = [IdleCreator EXCEPT !.pc = "done", !.res = NewBatchTransactionErr(req)]
              /\ UNCHANGED batch
         ELSE /\ batch' = [batch EXCEPT ![b] =
                             [exists |-> TRUE, ttype |-> ty, user |-> u, status |-> "pending",
                              total |-> SumAmounts(req), count |-> Len(req)]]
              /\ bc' = [pc |-> "items", id |-> b, req |-> req, total |-> SumAmounts(req),
                        res |-> ""]
    /\ UNCHANGED <<items, bp, bk, ledgerVars, esVars, domVars, schedVars, cbVars, fbVars, poolVars, dbVars, reqVars, ptVars>>

\* CreateBatchTransaction: batchItemRepo.Create of the next item of the request
BatchItemCreate ==
    /\ bc.pc = "items"
    /\ bc.req # <<>>
    /\ items' = [items EXCEPT ![bc.id] = Append(@, [amount |-> Head(bc.req), status |-> "pending"])]
    /\ bc' = [bc EXCEPT !.req = Tail(@)]
    /\ UNCHANGED <<batch, bp, bk, batchOps, ledgerVars, esVars, domVars, schedVars, cbVars, fbVars, poolVars, dbVars, reqVars, ptVars>>

\* CreateBatchTransaction: batchItemRepo.Create returns an error, which is logged, and
\* the loop continues with the next item
BatchItemCreateFault ==
    /\ bc.pc = "items"
    /\ bc.req # <<>>
    /\ bc' = [bc EXCEPT !.req = Tail(@)]
    /\ UNCHANGED <<batch, items, bp, bk, batchOps, ledgerVars, esVars, domVars, schedVars, cbVars, fbVars, poolVars, dbVars, reqVars, ptVars>>

\* CreateBatchTransaction returns the batch
BatchCreateDone ==
    /\ bc.pc = "items"
    /\ bc.req = <<>>
    /\ bc' = [bc EXCEPT !.pc = "done", !.res = "ok"]
    /\ UNCHANGED <<batch, items, bp, bk, batchOps, ledgerVars, esVars, domVars, schedVars, cbVars, fbVars, poolVars, dbVars, reqVars, ptVars>>

\* the caller of CreateBatchTransaction has its answer
BatchCreateReturn ==
    /\ bc.pc = "done"
    /\ bc' = IdleCreator
    /\ UNCHANGED <<batch, items, bp, bk, batchOps, ledgerVars, esVars, domVars, schedVars, cbVars, fbVars, poolVars, dbVars, reqVars, ptVars>>

\* The id of a batch is known to callers once CreateBatchTransaction has returned it
Created(b) == batch[b].exists /\ ~(bc.pc = "items" /\ bc.id = b)

\* ProcessBatchTransaction: batchRepo.GetByID and the check of the status; the second
\* goroutine p2 is used only while p1 is running
ProcessGet(p) ==
    /\ bp[p].pc = "idle"
    /\ p = "p2" => bp["p1"].pc # "idle"
    /\ batchOps < MaxBatchOps
    /\ batchOps' = batchOps + 1
    /\ \E b \in BatchIDs :
         /\ Created(b)
         /\ bp' = [bp EXCEPT ![p] =
                     IF batch[b].status # "pending"
                     THEN [IdleProcessor EXCEPT !.pc = "done", !.id = b, !.cur = batch[b],
                                                !.res = "not in pending status"]
                     ELSE [IdleProcessor EXCEPT !.pc = "mark", !.id = b,
                                                !.cur = BatchUpdateStatus(batch[b], "processing")]]
    /\ UNCHANGED <<batch, items, bc, bk, ledgerVars, esVars, domVars, schedVars, cbVars, fbVars, poolVars, dbVars, reqVars, ptVars>>

\* ProcessBatchTransaction: batchRepo.Update with status processing
ProcessMark(p) ==
    /\ bp[p].pc = "mark"
    /\ batch' = [batch EXCEPT ![bp[p].id] = bp[p].cur]
    /\ bp' = [bp EXCEPT ![p].pc = "items"]
    /\ UNCHANGED <<items, bc, bk, batchOps, ledgerVars, esVars, domVars, schedVars, cbVars, fbVars, poolVars, dbVars, reqVars, ptVars>>

\* ProcessBatchTransaction: batchItemRepo.GetByBatchID
ProcessGetItems(p) ==
    /\ bp[p].pc = "items"
    /\ bp' = [bp EXCEPT ![p].pc = "loop",
                        ![p].list = [j \in 1..Len(items[bp[p].id]) |->
                                        [idx |-> j, amount |-> items[bp[p].id][j].amount]]]
    /\ UNCHANGED <<batch, items, bc, bk, batchOps, ledgerVars, esVars, domVars, schedVars, cbVars, fbVars, poolVars, dbVars, reqVars, ptVars>>

\* processBatchItem: NewTransaction, the switch over the type of the batch, and the
\* GetByUserID of processCreditTransaction or processDebitTransaction
ItemGet(p) ==
    /\ bp[p].pc = "loop"
    /\ bp[p].list # <<>>
    /\ LET it == Head(bp[p].list)
           bal == balances[bp[p].cur.user]
           begun == [bp[p] EXCEPT !.list = Tail(@), !.idx = it.idx, !.amount = it.amount]
       IN
       bp' = [bp EXCEPT ![p] =
                IF it.amount <= 0 THEN [begun EXCEPT !.pc = "itemfail"]
                ELSE IF bp[p].cur.ttype = "TRANSFER" THEN [begun EXCEPT !.pc = "itemfail"]
                ELSE IF ~bal.exists THEN [begun EXCEPT !.pc = "itemfail"]
                ELSE IF bp[p].cur.ttype = "CREDIT"
                THEN IF BalanceAdd(bal.amount, it.amount).err # ""
                     THEN [begun EXCEPT !.pc = "itemfail"]
                     ELSE [begun EXCEPT !.pc = "itemupdate",
                                        !.newBal = BalanceAdd(bal.amount, it.amount).amount]
                ELSE IF BalanceSubtract(bal.amount, it.amount).err # ""
                     THEN [begun EXCEPT !.pc = "itemfail"]
                     ELSE [begun EXCEPT !.pc = "itemupdate",
                                        !.newBal = BalanceSubtract(bal.amount, it.amount).amount]]
    /\ UNCHANGED <<batch, items, bc, bk, batchOps, ledgerVars, esVars, domVars, schedVars, cbVars, fbVars, poolVars, dbVars, reqVars, ptVars>>

\* processCreditTransaction, processDebitTransaction: balanceRepo.Update
ItemUpdateBalance(p) ==
    /\ bp[p].pc = "itemupdate"
    /\ balances' = [balances EXCEPT ![bp[p].cur.user] = BalanceRow(bp[p].newBal)]
    /\ bp' = [bp EXCEPT ![p].pc = "itemtx"]
    /\ UNCHANGED <<batch, items, bc, bk, batchOps, txCount, cl, opCount, net,
                   esVars, domVars, schedVars, cbVars, fbVars, poolVars, dbVars, reqVars, ptVars>>

\* processCreditTransaction, processDebitTransaction: transactionRepo.Create
ItemCreateTx(p) ==
    /\ bp[p].pc = "itemtx"
    /\ txCount' = txCount + 1
    /\ bp' = [bp EXCEPT ![p].pc = "itemdone"]
    /\ UNCHANGED <<batch, items, bc, bk, batchOps, balances, cl, opCount, net,
                   esVars, domVars, schedVars, cbVars, fbVars, poolVars, dbVars, reqVars, ptVars>>

\* processBatchItem: item.Status = "completed"; batchItemRepo.Update; successCount++
ItemComplete(p) ==
    /\ bp[p].pc = "itemdone"
    /\ items' = [items EXCEPT ![bp[p].id][bp[p].idx] =
                   [amount |-> bp[p].amount, status |-> "completed"]]
    /\ bp' = [bp EXCEPT ![p].pc = "loop", ![p].successCount = @ + 1, ![p].newBal = 0]
    /\ UNCHANGED <<batch, bc, bk, batchOps, ledgerVars, esVars, domVars, schedVars, cbVars, fbVars, poolVars, dbVars, reqVars, ptVars>>

\* processBatchItem: item.Status = "failed"; batchItemRepo.Update; failedCount++
ItemFail(p) ==
    /\ bp[p].pc = "itemfail"
    /\ items' = [items EXCEPT ![bp[p].id][bp[p].idx] =
                   [amount |-> bp[p].amount, status |-> "failed"]]
    /\ bp' = [bp EXCEPT ![p].pc = "loop", ![p].failedCount = @ + 1, ![p].newBal = 0]
    /\ UNCHANGED <<batch, bc, bk, batchOps, ledgerVars, esVars, domVars, schedVars, cbVars, fbVars, poolVars, dbVars, reqVars, ptVars>>

\* ProcessBatchTransaction: the final status and batchRepo.Update
ProcessFinish(p) ==
    /\ bp[p].pc = "loop"
    /\ bp[p].list = <<>>
    /\ LET final == BatchUpdateStatus(bp[p].cur,
                                      FinalStatus(bp[p].successCount, bp[p].failedCount))
       IN /\ batch' = [batch EXCEPT ![bp[p].id] = final]
          /\ bp' = [bp EXCEPT ![p].pc = "done", ![p].cur = final, ![p].res = "ok"]
    /\ UNCHANGED <<items, bc, bk, batchOps, ledgerVars, esVars, domVars, schedVars, cbVars, fbVars, poolVars, dbVars, reqVars, ptVars>>

\* ProcessBatchTransaction returns
ProcessReturn(p) ==
    /\ bp[p].pc = "done"
    /\ bp' = [bp EXCEPT ![p] = IdleProcessor]
    /\ UNCHANGED <<batch, items, bc, bk, batchOps, ledgerVars, esVars, domVars, schedVars, cbVars, fbVars, poolVars, dbVars, reqVars, ptVars>>

\* CancelBatchTransaction: batchRepo.GetByID and the check of the status
BatchCancelGet ==
    /\ bk.pc = "idle"
    /\ batchOps < MaxBatchOps
    /\ batchOps' = batchOps + 1
    /\ \E b \in BatchIDs :
         /\ Created(b)
         /\ bk' = IF batch[b].status # "pending"
                  THEN [pc |-> "done", id |-> b, cur |-> batch[b], res |-> "not pending"]
                  ELSE [pc |-> "update", id |-> b,
                        cur |-> BatchUpdateStatus(batch[b], "cancelled"), res |-> ""]
    /\ UNCHANGED <<batch, items, bc, bp, ledgerVars, esVars, domVars, schedVars, cbVars, fbVars, poolVars, dbVars, reqVars, ptVars>>

\* CancelBatchTransaction: batchRepo.Update with status cancelled
BatchCancelUpdate ==
    /\ bk.pc = "update"
    /\ batch' = [batch EXCEPT ![bk.id] = bk.cur]
    /\ bk' = [bk EXCEPT !.pc = "done", !.res = "ok"]
    /\ UNCHANGED <<items, bc, bp, batchOps, ledgerVars, esVars, domVars, schedVars, cbVars, fbVars, poolVars, dbVars, reqVars, ptVars>>

\* CancelBatchTransaction returns
BatchCancelReturn ==
    /\ bk.pc = "done"
    /\ bk' = IdleBatchCanceller
    /\ UNCHANGED <<batch, items, bc, bp, batchOps, ledgerVars, esVars, domVars, schedVars, cbVars, fbVars, poolVars, dbVars, reqVars, ptVars>>

InitBatch ==
    /\ batch = [b \in BatchIDs |-> NoBatch]
    /\ items = [b \in BatchIDs |-> <<>>]
    /\ bc = IdleCreator
    /\ bp = [p \in Processors |-> IdleProcessor]
    /\ bk = IdleBatchCanceller
    /\ batchOps = 0

NextBatch ==
    \/ \E b \in BatchIDs : BatchCreate(b)
    \/ BatchItemCreate
    \/ BatchCreateDone
    \/ BatchCreateReturn
    \/ \E p \in Processors :
         \/ ProcessGet(p)
         \/ ProcessMark(p)
         \/ ProcessGetItems(p)
         \/ ItemGet(p)
         \/ ItemUpdateBalance(p)
         \/ ItemCreateTx(p)
         \/ ItemComplete(p)
         \/ ItemFail(p)
         \/ ProcessFinish(p)
         \/ ProcessReturn(p)
    \/ BatchCancelGet
    \/ BatchCancelUpdate
    \/ BatchCancelReturn

NextBatchFault == NextBatch \/ BatchItemCreateFault

InitLedger ==
    /\ balances = InitialBalances
    /\ txCount = 0
    /\ cl = [c \in Clients |-> IdleClient]
    /\ opCount = 0
    /\ net = [u \in Users |-> InitialBalances[u].amount]

NextLedger ==
    \E c \in Clients :
        \/ StartTransactionService(c)
        \/ StartBalanceService(c)
        \/ CreditGet(c)
        \/ CreditCreateBalance(c)
        \/ DebitGet(c)
        \/ TransferGetFrom(c)
        \/ TransferGetTo(c)
        \/ TxCreate(c)
        \/ UpdateFrom(c)
        \/ UpdateTo(c)
        \/ AddFundsGet(c)
        \/ WithdrawFundsGet(c)
        \/ TransferFundsGetFrom(c)
        \/ TransferFundsGetTo(c)
        \/ Return(c)

(***************************************************************************)
(* The request boundary of the ledger routes.  setupRoutes builds one       *)
(* ValidationMiddleware per route around one request struct, so every       *)
(* request of a route is decoded into the same struct, and the handler      *)
(* reads the struct again when it runs.                                     *)
(***************************************************************************)
Routes == {"Credit", "Debit", "Transfer"}

RequestAmounts == (0 - MaxAmount)..MaxAmount

\* &domain.TransactionRequest{} / &domain.TransferRequest{} of setupRoutes
EmptyRequest == [Amount |-> 0, ToUserID |-> "u1"]

\* ValidationMiddleware: ShouldBindJSON decodes the body into the struct of the route and
\* then validates it; a request that fails is answered 400
BindRequest(c) ==
    /\ cl[c].pc = "idle"
    /\ opCount < MaxOps
    /\ \E op \in Routes, u \in Users, t \in Users, a \in RequestAmounts :
         /\ op # "Transfer" => t = u
         /\ opCount' = opCount + 1
         /\ schema' = [schema EXCEPT ![op] = [Amount |-> a, ToUserID |-> t]]
         /\ cl' = [cl EXCEPT ![c] =
                     [IdleClient EXCEPT !.pc = IF ValidationMiddleware(a) THEN "handler" ELSE "done",
                                        !.svc = "TransactionService", !.op = op, !.user = u,
                                        !.to = t, !.amt = a,
                                        !.res = IF ValidationMiddleware(a) THEN "" ELSE "rejected"]]
    /\ UNCHANGED <<balances, txCount, net, notLedgerReqVars>>

\* TransactionHandler.Credit / Debit / Transfer: req.Amount and req.ToUserID are read from
\* the struct of the route and passed to the service
HandlerCall(c) ==
    /\ cl[c].pc = "handler"
    /\ cl' = [cl EXCEPT ![c] =
                [cl[c] EXCEPT !.pc = "get", !.amt = schema[cl[c].op].Amount,
                              !.to = IF cl[c].op = "Transfer" THEN schema[cl[c].op].ToUserID
                                     ELSE cl[c].user]]
    /\ UNCHANGED <<balances, txCount, opCount, net, schema, notLedgerReqVars>>

InitRequests == schema = [r \in Routes |-> EmptyRequest]

NextLedgerRequests ==
    \E c \in Clients :
        \/ BindRequest(c)
        \/ HandlerCall(c)
        \/ CreditGet(c)
        \/ CreditCreateBalance(c)
        \/ DebitGet(c)
        \/ TransferGetFrom(c)
        \/ TransferGetTo(c)
        \/ TxCreate(c)
        \/ UpdateFrom(c)
        \/ UpdateTo(c)
        \/ Return(c)

NextLedgerFault == NextLedger \/ \E c \in Clients : DbFault(c)

(***************************************************************************)
(* Circuit breaker (package circuitbreaker)                                *)
(*                                                                         *)
(* Both locks are sync.RWMutex: not reentrant, and a goroutine waiting in  *)
(* Lock keeps later RLock calls waiting.  A goroutine at one of the lock   *)
(* positions below is about to call Lock, or (inLock) is waiting in it.    *)
(***************************************************************************)
FailureThreshold == 1
SuccessThreshold == 1
HalfOpenMaxRequests == 1
MinRequestCount == 2
Timeout == 1

Callers == {"g1", "g2"}
Monitor == "mon"
Admin == "adm"
Goroutines == Callers \cup {Monitor, Admin}

NoCounts ==
    [Requests |-> 0, TotalErrors |-> 0, ConsecutiveErrors |-> 0, ConsecutiveSuccesses |-> 0]

\* NewCircuitBreaker
\* period numbers the HALF_OPEN periods of the breaker (history)
NewCircuitBreaker ==
    [state |-> "CLOSED", counts |-> NoCounts, lastStateChange |-> clock, period |-> 0]

NoLock == [r |-> {}, w |-> "none"]

IdleGoroutine ==
    [pc |-> "idle", err |-> FALSE, ready |-> "none", invoked |-> FALSE, res |-> "none",
     recState |-> "none", trans |-> "none", admit |-> 0, inLock |-> FALSE]

\* the positions of a goroutine at mu.Lock() and at counts.mu.Lock()
MuLockPcs == {"half_lock", "open_lock", "closed_lock", "reset_lock"}
CountsLockPcs == {"inc", "record", "half_counts", "closed_counts", "reset_counts"}

\* sync.RWMutex.RLock returns: no writer holds the lock and no goroutine waits in Lock
CanRLock(l, pcs) ==
    l.w = "none" /\ \A g \in Goroutines : ~(th[g].pc \in pcs /\ th[g].inLock)

\* sync.RWMutex.Lock returns: nobody holds the lock
CanLock(l) == l.w = "none" /\ l.r = {}

\* time.Since(cb.lastStateChange) >= cb.config.Timeout
TimeoutElapsed(last) == clock - last >= Timeout

\* Ready: the switch on cb.state
ReadySwitch_OpenAdmits(state, last) ==
    CASE state = "CLOSED" -> "true"
      [] state = "OPEN" -> "true"
      [] state = "HALF_OPEN" -> "counts"
      [] OTHER -> "false"
ReadySwitch(state, last) ==
    CASE state = "CLOSED" -> "true"
      [] state = "OPEN" -> IF TimeoutElapsed(last) THEN "transition" ELSE "false"
      [] state = "HALF_OPEN" -> "counts"
      [] OTHER -> "false"

\* Execute: if !cb.Ready() { return error }
AfterReady_IgnoreReady(r) == "inc"
AfterReady(r) == IF r THEN "inc" ELSE "rejected"

\* shouldOpen
shouldOpen_NoMinRequestCount(counts) == counts.ConsecutiveErrors >= FailureThreshold
shouldOpen(counts) ==
    IF counts.Requests < MinRequestCount
    THEN FALSE
    ELSE counts.ConsecutiveErrors >= FailureThreshold

\* shouldClose
shouldClose(state, counts) ==
    IF state # "HALF_OPEN"
    THEN FALSE
    ELSE counts.ConsecutiveSuccesses >= SuccessThreshold

\* Execute is called
ExecuteBegin(g) ==
    /\ th[g].pc = "idle"
    /\ cbCalls < MaxCalls
    /\ g = "g2" => th["g1"].pc # "idle"
    /\ cbCalls' = cbCalls + 1
    /\ th' = [th EXCEPT ![g] = [IdleGoroutine EXCEPT !.pc = "ready"]]
    /\ UNCHANGED <<cb, mu, countsMu, clock, ledgerVars, esVars, domVars, schedVars, batchVars, fbVars, poolVars, dbVars, reqVars, ptVars>>

\* Ready: cb.mu.RLock()
ReadyRLock(g) ==
    /\ th[g].pc = "ready"
    /\ CanRLock(mu, MuLockPcs)
    /\ mu' = [mu EXCEPT !.r = @ \cup {g}]
    /\ th' = [th EXCEPT ![g].pc = "switch"]
    /\ UNCHANGED <<cb, countsMu, clock, cbCalls, ledgerVars, esVars, domVars, schedVars, batchVars, fbVars, poolVars, dbVars, reqVars, ptVars>>

\* Ready: switch cb.state; the deferred RUnlock runs when Ready returns
ReadySwitchStep(g) ==
    /\ th[g].pc = "switch"
    /\ LET o == ReadySwitch(cb.state, cb.lastStateChange) IN
         CASE o = "true" ->
                /\ th' = [th EXCEPT ![g].ready = "true", ![g].pc = AfterReady(TRUE)]
                /\ mu' = [mu EXCEPT !.r = @ \ {g}]
           [] o = "false" ->
                /\ th' = [th EXCEPT ![g].ready = "false", ![g].pc = AfterReady(FALSE)]
                /\ mu' = [mu EXCEPT !.r = @ \ {g}]
           [] o = "transition" ->
                /\ th' = [th EXCEPT ![g].pc = "half_lock"]
                /\ UNCHANGED mu
           [] o = "counts" ->
                /\ th' = [th EXCEPT ![g].pc = "readycounts"]
                /\ UNCHANGED mu
    /\ UNCHANGED <<cb, countsMu, clock, cbCalls, ledgerVars, esVars, domVars, schedVars, batchVars, fbVars, poolVars, dbVars, reqVars, ptVars>>

\* Ready, HALF_OPEN: cb.counts.mu.RLock(); requests := cb.counts.Requests; RUnlock();
\* return requests < HalfOpenMaxRequests
ReadyCounts(g) ==
    /\ th[g].pc = "readycounts"
    /\ CanRLock(countsMu, CountsLockPcs)
    /\ LET r == cb.counts.Requests < HalfOpenMaxRequests IN
         th' = [th EXCEPT ![g].ready = IF r THEN "true" ELSE "false",
                          ![g].admit = IF r THEN cb.period ELSE 0,
                          ![g].pc = AfterReady(r)]
    /\ mu' = [mu EXCEPT !.r = @ \ {g}]
    /\ UNCHANGED <<cb, countsMu, clock, cbCalls, ledgerVars, esVars, domVars, schedVars, batchVars, fbVars, poolVars, dbVars, reqVars, ptVars>>

\* the caller of transitionToHalfOpen goes on: Ready returns true, checkStateTransition returns
AfterHalfOpen(g) ==
    /\ th' = IF g = Monitor
             THEN [th EXCEPT ![g].inLock = FALSE, ![g].pc = "idle"]
             ELSE [th EXCEPT ![g].ready = "true", ![g].inLock = FALSE,
                             ![g].admit = IF cb'.state = "HALF_OPEN" THEN cb'.period ELSE 0,
                             ![g].pc = AfterReady(TRUE)]
    /\ mu' = [r |-> mu.r \ {g}, w |-> "none"]

\* transitionToHalfOpen: cb.mu.Lock(); if cb.state == StateOpen { state, lastStateChange }
TransitionToHalfOpenLock(g) ==
    /\ th[g].pc = "half_lock"
    /\ CanLock(mu)
    /\ IF cb.state = "OPEN"
       THEN /\ cb' = [cb EXCEPT !.state = "HALF_OPEN", !.lastStateChange = clock,
                                !.period = @ + 1]
            /\ mu' = [mu EXCEPT !.w = g]
            /\ th' = [th EXCEPT ![g].inLock = FALSE, ![g].pc = "half_counts"]
       ELSE /\ AfterHalfOpen(g)
            /\ UNCHANGED cb
    /\ UNCHANGED <<countsMu, clock, cbCalls, ledgerVars, esVars, domVars, schedVars, batchVars, fbVars, poolVars, dbVars, reqVars, ptVars>>

\* transitionToHalfOpen, transitionToClosed: cb.counts.mu.Lock(); the counters are reset;
\* both locks are released and the caller goes on
TransitionCountsLock(g) ==
    /\ th[g].pc \in {"half_counts", "closed_counts"}
    /\ CanLock(countsMu)
    /\ IF th[g].pc = "half_counts"
       THEN /\ cb' = [cb EXCEPT !.counts.Requests = 0, !.counts.ConsecutiveErrors = 0,
                                !.counts.ConsecutiveSuccesses = 0]
            /\ AfterHalfOpen(g)
       ELSE /\ cb' = [cb EXCEPT !.counts = NoCounts]
            /\ mu' = [mu EXCEPT !.w = "none"]
            /\ th' = [th EXCEPT ![g].inLock = FALSE, ![g].pc = "done", ![g].res = "ok"]
    /\ UNCHANGED <<countsMu, clock, cbCalls, ledgerVars, esVars, domVars, schedVars, batchVars, fbVars, poolVars, dbVars, reqVars, ptVars>>

\* a goroutine calls Lock of cb.mu or of cb.counts.mu and waits in it
LockCall(g) ==
    /\ th[g].pc \in MuLockPcs \cup CountsLockPcs
    /\ ~th[g].inLock
    /\ th' = [th EXCEPT ![g].inLock = TRUE]
    /\ UNCHANGED <<cb, mu, countsMu, clock, cbCalls, ledgerVars, esVars, domVars, schedVars, batchVars, fbVars, poolVars, dbVars, reqVars, ptVars>>

\* Execute: the error of a breaker that is not ready
ExecuteReject(g) ==
    /\ th[g].pc = "rejected"
    /\ th' = [th EXCEPT ![g].pc = "done", ![g].res = "BreakerOpen"]
    /\ UNCHANGED <<cb, mu, countsMu, clock, cbCalls, ledgerVars, esVars, domVars, schedVars, batchVars, fbVars, poolVars, dbVars, reqVars, ptVars>>

\* Execute: cb.counts.mu.Lock(); cb.counts.Requests++; Unlock()
IncRequests(g) ==
    /\ th[g].pc = "inc"
    /\ CanLock(countsMu)
    /\ cb' = [cb EXCEPT !.counts.Requests = @ + 1]
    /\ th' = [th EXCEPT ![g].inLock = FALSE, ![g].pc = "fn"]
    /\ UNCHANGED <<mu, countsMu, clock, cbCalls, ledgerVars, esVars, domVars, schedVars, batchVars, fbVars, poolVars, dbVars, reqVars, ptVars>>

\* Execute: err := fn()
InvokeFn(g) ==
    /\ th[g].pc = "fn"
    /\ \E e \in BOOLEAN :
         th' = [th EXCEPT ![g].invoked = TRUE, ![g].err = e, ![g].pc = "record"]
    /\ UNCHANGED <<cb, mu, countsMu, clock, cbCalls, ledgerVars, esVars, domVars, schedVars, batchVars, fbVars, poolVars, dbVars, reqVars, ptVars>>

\* recordResult: cb.counts.mu.Lock(); the counters of the result
RecordResultLock(g) ==
    /\ th[g].pc = "record"
    /\ CanLock(countsMu)
    /\ countsMu' = [countsMu EXCEPT !.w = g]
    /\ cb' = IF th[g].err
             THEN [cb EXCEPT !.counts.TotalErrors = @ + 1,
                             !.counts.ConsecutiveErrors = @ + 1,
                             !.counts.ConsecutiveSuccesses = 0]
             ELSE [cb EXCEPT !.counts.ConsecutiveSuccesses = @ + 1,
                             !.counts.ConsecutiveErrors = 0]
    /\ th' = [th EXCEPT ![g].recState = cb.state, ![g].inLock = FALSE, ![g].pc = "should"]
    /\ UNCHANGED <<mu, clock, cbCalls, ledgerVars, esVars, domVars, schedVars, batchVars, fbVars, poolVars, dbVars, reqVars, ptVars>>

\* recordResult: if cb.shouldOpen() / if cb.shouldClose(); without a transition the
\* deferred Unlock runs and Execute returns err
RecordResultDecide(g) ==
    /\ th[g].pc = "should"
    /\ LET t == IF th[g].err
                THEN IF shouldOpen(cb.counts) THEN "open_lock" ELSE "done"
                ELSE IF shouldClose(cb.state, cb.counts) THEN "closed_lock" ELSE "done"
       IN /\ th' = [th EXCEPT ![g].pc = t,
                              ![g].res = IF t = "done"
                                         THEN (IF th[g].err THEN "err" ELSE "ok")
                                         ELSE @]
          /\ countsMu' = IF t = "done" THEN [countsMu EXCEPT !.w = "none"] ELSE countsMu
    /\ UNCHANGED <<cb, mu, clock, cbCalls, ledgerVars, esVars, domVars, schedVars, batchVars, fbVars, poolVars, dbVars, reqVars, ptVars>>

\* transitionToOpen, then the deferred Unlock of recordResult; Execute returns err
TransitionToOpen(g) ==
    /\ th[g].pc = "open_lock"
    /\ CanLock(mu)
    /\ cb' = IF cb.state # "OPEN"
             THEN [cb EXCEPT !.state = "OPEN", !.lastStateChange = clock]
             ELSE cb
    /\ countsMu' = [countsMu EXCEPT !.w = "none"]
    /\ th' = [th EXCEPT ![g].trans = "open", ![g].inLock = FALSE, ![g].pc = "done",
                         ![g].res = "err"]
    /\ UNCHANGED <<mu, clock, cbCalls, ledgerVars, esVars, domVars, schedVars, batchVars, fbVars, poolVars, dbVars, reqVars, ptVars>>

\* transitionToClosed: cb.mu.Lock(); if cb.state == StateHalfOpen { state, lastStateChange }
TransitionToClosedLock(g) ==
    /\ th[g].pc = "closed_lock"
    /\ CanLock(mu)
    /\ IF cb.state = "HALF_OPEN"
       THEN /\ cb' = [cb EXCEPT !.state = "CLOSED", !.lastStateChange = clock]
            /\ mu' = [mu EXCEPT !.w = g]
            /\ th' = [th EXCEPT ![g].trans = "closed", ![g].inLock = FALSE,
                                 ![g].pc = "closed_counts"]
            /\ UNCHANGED countsMu
       ELSE /\ countsMu' = [countsMu EXCEPT !.w = "none"]
            /\ th' = [th EXCEPT ![g].trans = "closed", ![g].inLock = FALSE, ![g].pc = "done",
                                 ![g].res = "ok"]
            /\ UNCHANGED <<cb, mu>>
    /\ UNCHANGED <<clock, cbCalls, ledgerVars, esVars, domVars, schedVars, batchVars, fbVars, poolVars, dbVars, reqVars, ptVars>>

\* Execute has returned
ExecuteReturn(g) ==
    /\ th[g].pc = "done"
    /\ th' = [th EXCEPT ![g] = IdleGoroutine]
    /\ UNCHANGED <<cb, mu, countsMu, clock, cbCalls, ledgerVars, esVars, domVars, schedVars, batchVars, fbVars, poolVars, dbVars, reqVars, ptVars>>

\* monitorState: a tick of the ticker runs checkStateTransition
CheckStateTransition ==
    /\ th[Monitor].pc = "idle"
    /\ CanRLock(mu, MuLockPcs)
    /\ cb.state = "OPEN"
    /\ TimeoutElapsed(cb.lastStateChange)
    /\ th' = [th EXCEPT ![Monitor].pc = "half_lock"]
    /\ UNCHANGED <<cb, mu, countsMu, clock, cbCalls, ledgerVars, esVars, domVars, schedVars, batchVars, fbVars, poolVars, dbVars, reqVars, ptVars>>

\* time passes
ClockTick ==
    /\ clock < MaxClock
    /\ clock' = clock + 1
    /\ UNCHANGED <<cb, mu, countsMu, th, cbCalls, ledgerVars, esVars, domVars, schedVars, batchVars, fbVars, poolVars, dbVars, reqVars, ptVars>>

\* Reset or ForceClose is called (they differ in cb.lastError only)
ResetBegin ==
    /\ th[Admin].pc = "idle"
    /\ cbCalls < MaxCalls
    /\ cbCalls' = cbCalls + 1
    /\ th' = [th EXCEPT ![Admin] = [IdleGoroutine EXCEPT !.pc = "reset_lock"]]
    /\ UNCHANGED <<cb, mu, countsMu, clock, ledgerVars, esVars, domVars, schedVars, batchVars, fbVars, poolVars, dbVars, reqVars, ptVars>>

\* Reset, ForceClose: cb.mu.Lock(); cb.state = StateClosed; cb.lastStateChange = time.Now()
ResetLock ==
    /\ th[Admin].pc = "reset_lock"
    /\ CanLock(mu)
    /\ mu' = [mu EXCEPT !.w = Admin]
    /\ cb' = [cb EXCEPT !.state = "CLOSED", !.lastStateChange = clock]
    /\ th' = [th EXCEPT ![Admin].inLock = FALSE, ![Admin].pc = "reset_counts"]
    /\ UNCHANGED <<countsMu, clock, cbCalls, ledgerVars, esVars, domVars, schedVars, batchVars, fbVars, poolVars, dbVars, reqVars, ptVars>>

\* Reset, ForceClose: cb.counts.mu.Lock(); the counters are reset; both locks are released
\* and the call returns
ResetCountsLock ==
    /\ th[Admin].pc = "reset_counts"
    /\ CanLock(countsMu)
    /\ cb' = [cb EXCEPT !.counts = NoCounts]
    /\ mu' = [mu EXCEPT !.w = "none"]
    /\ th' = [th EXCEPT ![Admin] = IdleGoroutine]
    /\ UNCHANGED <<countsMu, clock, cbCalls, ledgerVars, esVars, domVars, schedVars, batchVars, fbVars, poolVars, dbVars, reqVars, ptVars>>

InitBreaker ==
    /\ clock = 0
    /\ cb = NewCircuitBreaker
    /\ mu = NoLock
    /\ countsMu = NoLock
    /\ th = [g \in Goroutines |-> IdleGoroutine]
    /\ cbCalls = 0

\* the steps of a goroutine that is inside a call
RunningStep(g) ==
    \/ ReadyRLock(g)
    \/ ReadySwitchStep(g)
    \/ ReadyCounts(g)
    \/ ExecuteReject(g)
    \/ IncRequests(g)
    \/ InvokeFn(g)
    \/ RecordResultLock(g)
    \/ RecordResultDecide(g)
    \/ TransitionToOpen(g)
    \/ TransitionToClosedLock(g)
    \/ TransitionToHalfOpenLock(g)
    \/ TransitionCountsLock(g)
    \/ LockCall(g)
    \/ ExecuteReturn(g)

NextBreaker ==
    \/ \E g \in Callers :
         \/ ExecuteBegin(g)
         \/ ReadyRLock(g)
         \/ ReadySwitchStep(g)
         \/ ReadyCounts(g)
         \/ ExecuteReject(g)
         \/ IncRequests(g)
         \/ InvokeFn(g)
         \/ RecordResultLock(g)
         \/ RecordResultDecide(g)
         \/ TransitionToOpen(g)
         \/ TransitionToClosedLock(g)
         \/ ExecuteReturn(g)
    \/ \E g \in Goroutines :
         \/ TransitionToHalfOpenLock(g)
         \/ TransitionCountsLock(g)
         \/ LockCall(g)
    \/ CheckStateTransition
    \/ ClockTick

\* the breaker with an operator calling Reset or ForceClose
NextBreakerReset ==
    \/ NextBreaker
    \/ ResetBegin
    \/ ResetLock
    \/ ResetCountsLock

(***************************************************************************)
(* Fallback executor (package fallback)                                    *)
(*                                                                         *)
(* A value is named after the call that produced it: by is 0 for the       *)
(* primary and j for the j-th fallback, ok tells whether that call         *)
(* returned no error.  calls is the history of the calls of one Execute.   *)
(***************************************************************************)
CacheTTL == 1

Keys == {"k1"}
Executors == {"x1", "x2"}
Strategies == {"sequential", "parallel", "degradation"}

NoManager == [strategy |-> "none", EnableCaching |-> FALSE, EnableDegradation |-> FALSE]

NoValue == [by |-> -1, ok |-> FALSE]
NoEntry == [exists |-> FALSE, data |-> NoValue, ts |-> 0, ttl |-> 0]

IdleExecutor ==
    [pc |-> "idle", key |-> "k1", n |-> 0, i |-> 0, calls |-> <<>>, result |-> NoValue,
     res |-> "none", cancelled |-> FALSE, hit |-> FALSE,
     fb |-> <<>>, chan |-> <<>>, got |-> 0, successCount |-> 0]

\* FallbackCache.Get: time.Since(entry.Timestamp) > entry.TTL
Expired_Always(entry) == TRUE
Expired(entry) == ftime - entry.ts > entry.ttl

\* NewFallbackManager with any strategy and any switches of the FallbackConfig
NewFallbackManager ==
    /\ fcfg = NoManager
    /\ fcfg' \in [strategy : Strategies, EnableCaching : BOOLEAN, EnableDegradation : BOOLEAN]
    /\ fcfg'.EnableDegradation => fcfg'.strategy = "degradation"
    /\ UNCHANGED <<fcache, fmu, fx, ftime, fOps, notFbVars>>

\* FallbackManager.Execute is called; two calls meet only in the cache, so the second
\* goroutine calls Execute only when the cache is switched on, and without fallbacks
FExecuteBegin(x) ==
    /\ fcfg # NoManager
    /\ fx[x].pc = "idle"
    /\ fOps < MaxExec
    /\ x = "x2" => (fcfg.EnableCaching /\ fx["x1"].pc # "idle")
    /\ fOps' = fOps + 1
    /\ \E k \in Keys, n \in 0..(IF x = "x1" THEN MaxFallbacks ELSE 0) :
         fx' = [fx EXCEPT ![x] = [IdleExecutor EXCEPT
                   !.key = k, !.n = n,
                   !.pc = IF fcfg.EnableCaching THEN "get" ELSE "primary"]]
    /\ UNCHANGED <<fcfg, fcache, fmu, ftime, notFbVars>>

\* the context handed to Execute is cancelled (the strategies look at it in their loops)
CtxCancel(x) ==
    /\ fx[x].pc \in {"loop", "wait"}
    /\ ~fx[x].cancelled
    /\ fx' = [fx EXCEPT ![x].cancelled = TRUE]
    /\ UNCHANGED <<fcfg, fcache, fmu, ftime, fOps, notFbVars>>

\* FallbackCache.Get: fc.mu.RLock()
CacheGetRLock(x) ==
    /\ fx[x].pc = "get"
    /\ fmu.w = "none"
    /\ fmu' = [fmu EXCEPT !.r = @ \cup {x}]
    /\ fx' = [fx EXCEPT ![x].pc = "getread"]
    /\ UNCHANGED <<fcfg, fcache, ftime, fOps, notFbVars>>

\* FallbackCache.Get: the lookup, the delete of an expired entry, the deferred RUnlock;
\* Execute returns the cached value when there is one
CacheGetRead(x) ==
    /\ fx[x].pc = "getread"
    /\ LET entry == fcache[fx[x].key] IN
         IF ~entry.exists
         THEN /\ fx' = [fx EXCEPT ![x].pc = "primary"]
              /\ UNCHANGED fcache
         ELSE IF Expired(entry)
         THEN /\ fcache' = [fcache EXCEPT ![fx[x].key] = NoEntry]
              /\ fx' = [fx EXCEPT ![x].pc = "primary"]
         ELSE /\ fx' = [fx EXCEPT ![x].pc = "done", ![x].hit = TRUE,
                                  ![x].result = entry.data, ![x].res = "ok"]
              /\ UNCHANGED fcache
    /\ fmu' = [fmu EXCEPT !.r = @ \ {x}]
    /\ UNCHANGED <<fcfg, ftime, fOps, notFbVars>>

\* where a strategy goes after a failed primary
AfterPrimaryError(x) ==
    CASE fcfg.strategy = "sequential" -> [pc |-> "loop", res |-> "none"]
      [] fcfg.strategy = "parallel" ->
           IF fx[x].n = 0 THEN [pc |-> "after", res |-> "PrimaryError"]
                          ELSE [pc |-> "launch", res |-> "none"]
      [] fcfg.strategy = "degradation" ->
           IF ~fcfg.EnableDegradation THEN [pc |-> "after", res |-> "PrimaryError"]
                                      ELSE [pc |-> "loop", res |-> "none"]

\* every strategy: err := primary(), with primaryFn of FallbackManager.Execute
InvokePrimary(x) ==
    /\ fx[x].pc = "primary"
    /\ \E e \in BOOLEAN :
         fx' = [fx EXCEPT ![x].calls = Append(@, [by |-> 0, ok |-> ~e]),
                          ![x].result = [by |-> 0, ok |-> ~e],
                          ![x].i = 1,
                          ![x].pc = IF e THEN AfterPrimaryError(x).pc ELSE "after",
                          ![x].res = IF e THEN AfterPrimaryError(x).res ELSE "ok"]
    /\ UNCHANGED <<fcfg, fcache, fmu, ftime, fOps, notFbVars>>

\* SequentialFallbackStrategy.Execute: err = fallback(); if err == nil { return nil }
SequentialAfterCall_KeepGoing(e) == "loop"
SequentialAfterCall(e) == IF e THEN "loop" ELSE "after"

\* SequentialFallbackStrategy.Execute, DegradationFallbackStrategy.Execute: one turn of
\* the loop over the fallbacks, or the error after the loop
SequentialNext(x) ==
    /\ fx[x].pc = "loop"
    /\ IF fx[x].i > fx[x].n
       THEN fx' = [fx EXCEPT ![x].pc = "after", ![x].res = "AllFallbacksFailed"]
       ELSE IF fx[x].cancelled
       THEN fx' = [fx EXCEPT ![x].pc = "after", ![x].res = "Cancelled"]
       ELSE \E e \in BOOLEAN :
              fx' = [fx EXCEPT ![x].calls = Append(@, [by |-> fx[x].i, ok |-> ~e]),
                               ![x].result = [by |-> fx[x].i, ok |-> ~e],
                               ![x].i = @ + 1,
                               ![x].pc = SequentialAfterCall(e),
                               ![x].res = IF e THEN "none" ELSE "ok"]
    /\ UNCHANGED <<fcfg, fcache, fmu, ftime, fOps, notFbVars>>

\* ParallelFallbackStrategy.Execute: one goroutine per fallback is started
ParallelLaunch(x) ==
    /\ fx[x].pc = "launch"
    /\ fx' = [fx EXCEPT ![x].fb = [j \in 1..fx[x].n |-> "running"], ![x].pc = "wait"]
    /\ UNCHANGED <<fcfg, fcache, fmu, ftime, fOps, notFbVars>>

\* a fallback goroutine: resultChan <- fn(), with fallbackFns[j] of FallbackManager.Execute
\* writing result
FallbackRun(x, j) ==
    /\ fx[x].pc = "wait"
    /\ j \in 1..fx[x].n
    /\ fx[x].fb[j] = "running"
    /\ \E e \in BOOLEAN :
         fx' = [fx EXCEPT ![x].calls = Append(@, [by |-> j, ok |-> ~e]),
                          ![x].result = [by |-> j, ok |-> ~e],
                          ![x].fb[j] = IF e THEN "err" ELSE "ok",
                          ![x].chan = Append(@, e)]
    /\ UNCHANGED <<fcfg, fcache, fmu, ftime, fOps, notFbVars>>

\* ParallelFallbackStrategy.Execute: case fallbackErr := <-resultChan
ParallelReceive(x) ==
    /\ fx[x].pc = "wait"
    /\ fx[x].got < fx[x].n
    /\ fx[x].chan # <<>>
    /\ fx' = [fx EXCEPT ![x].chan = Tail(@),
                        ![x].got = @ + 1,
                        ![x].successCount = IF Head(fx[x].chan) THEN @ ELSE @ + 1]
    /\ UNCHANGED <<fcfg, fcache, fmu, ftime, fOps, notFbVars>>

\* ParallelFallbackStrategy.Execute: case <-timeoutCtx.Done(), after the timeout or after
\* the cancellation of the parent context
ParallelTimeout(x) ==
    /\ fx[x].pc = "wait"
    /\ fx[x].got < fx[x].n
    /\ fx' = [fx EXCEPT ![x].pc = "after",
                        ![x].res = IF fx[x].cancelled THEN "Cancelled" ELSE "Timeout"]
    /\ UNCHANGED <<fcfg, fcache, fmu, ftime, fOps, notFbVars>>

\* ParallelFallbackStrategy.Execute: after the loop over the results
ParallelFinish(x) ==
    /\ fx[x].pc = "wait"
    /\ fx[x].got = fx[x].n
    /\ fx' = [fx EXCEPT ![x].pc = "after",
                        ![x].res = IF fx[x].successCount > 0 THEN "ok"
                                                             ELSE "AllFallbacksFailed"]
    /\ UNCHANGED <<fcfg, fcache, fmu, ftime, fOps, notFbVars>>

\* FallbackManager.Execute: if err == nil && EnableCaching { fm.cache.Set(...) }; return
CacheSet(x) ==
    /\ fx[x].pc = "after"
    /\ IF fx[x].res = "ok" /\ fcfg.EnableCaching
       THEN /\ fmu.w = "none" /\ fmu.r = {}
            /\ fcache' = [fcache EXCEPT ![fx[x].key] =
                            [exists |-> TRUE, data |-> fx[x].result, ts |-> ftime,
                             ttl |-> CacheTTL]]
       ELSE UNCHANGED fcache
    /\ fx' = [fx EXCEPT ![x].pc = "done"]
    /\ UNCHANGED <<fcfg, fmu, ftime, fOps, notFbVars>>

\* FallbackManager.Execute has returned
FExecuteReturn(x) ==
    /\ fx[x].pc = "done"
    /\ fx' = [fx EXCEPT ![x] = IdleExecutor]
    /\ UNCHANGED <<fcfg, fcache, fmu, ftime, fOps, notFbVars>>

\* startCacheCleanup: a tick of the ticker runs FallbackCache.Cleanup
CacheCleanup ==
    /\ fcfg.EnableCaching
    /\ fmu.w = "none" /\ fmu.r = {}
    /\ \E k \in Keys : fcache[k].exists /\ Expired(fcache[k])
    /\ fcache' = [k \in Keys |-> IF fcache[k].exists /\ Expired(fcache[k])
                                 THEN NoEntry ELSE fcache[k]]
    /\ UNCHANGED <<fcfg, fmu, fx, ftime, fOps, notFbVars>>

\* time passes
FTick ==
    /\ ftime < MaxFTime
    /\ ftime' = ftime + 1
    /\ UNCHANGED <<fcfg, fcache, fmu, fx, fOps, notFbVars>>

InitFallback ==
    /\ fcfg = NoManager
    /\ fcache = [k \in Keys |-> NoEntry]
    /\ fmu = NoLock
    /\ fx = [x \in Executors |-> IdleExecutor]
    /\ ftime = 0
    /\ fOps = 0

NextFallback ==
    \/ NewFallbackManager
    \/ \E x \in Executors :
         \/ FExecuteBegin(x)
         \/ CtxCancel(x)
         \/ CacheGetRLock(x)
         \/ CacheGetRead(x)
         \/ InvokePrimary(x)
         \/ SequentialNext(x)
         \/ ParallelLaunch(x)
         \/ \E j \in 1..MaxFallbacks : FallbackRun(x, j)
         \/ ParallelReceive(x)
         \/ ParallelTimeout(x)
         \/ ParallelFinish(x)
         \/ CacheSet(x)
         \/ FExecuteReturn(x)
    \/ CacheCleanup
    \/ FTick

(***************************************************************************)
(* Worker pool (package worker, TransactionWorkerPool)                     *)
(***************************************************************************)
PoolWorkers == {"pw1", "pw2"}

IdleSubmit == [pc |-> "idle", job |-> 0, down |-> FALSE, res |-> "none"]

\* TransactionWorker: its counters, and the job and the locals of start
NewTransactionWorker(pc) ==
    [pc |-> pc, job |-> 0, err |-> FALSE, processedCount |-> 0, failedCount |-> 0, read |-> 0]

\* TransactionStats of the transaction service, which GetStats returns by pointer
NewTransactionStats == [TotalProcessed |-> 0, TotalFailed |-> 0, mu |-> "none"]

\* NewTransactionWorkerPool
NewTransactionWorkerPool ==
    [started |-> FALSE, ctxDone |-> FALSE, closed |-> FALSE, queue |-> <<>>, wg |-> 0,
     processed |-> {}, stats |-> NewTransactionStats, succeeded |-> 0, failed |-> 0]

\* Start: wg.Add(1) and go worker.start(&p.wg) for every worker
PoolStart ==
    /\ ~pool.started
    /\ pool' = [pool EXCEPT !.started = TRUE, !.wg = @ + Cardinality(PoolWorkers)]
    /\ wk' = [w \in PoolWorkers |-> NewTransactionWorker("range")]
    /\ UNCHANGED <<stp, sj, jobCount, notPoolVars>>

\* TransactionWorker.start: for job := range w.jobQueue receives a job
WorkerReceive(w) ==
    /\ wk[w].pc = "range"
    /\ pool.queue # <<>>
    /\ wk' = [wk EXCEPT ![w].pc = "processing", ![w].job = Head(pool.queue)]
    /\ pool' = [pool EXCEPT !.queue = Tail(@)]
    /\ UNCHANGED <<stp, sj, jobCount, notPoolVars>>

\* processTransaction: ProcessTransaction fails or succeeds (succeeded and failed count
\* the jobs by their outcome); failedCount or processedCount is incremented, and after
\* a success stats.UpdateStats is called
WorkerProcess(w) ==
    /\ wk[w].pc = "processing"
    /\ \E err \in BOOLEAN :
         /\ pool' = [pool EXCEPT !.processed = @ \cup {wk[w].job},
                                 !.succeeded = IF err THEN @ ELSE @ + 1,
                                 !.failed = IF err THEN @ + 1 ELSE @]
         /\ wk' = [wk EXCEPT ![w].err = err,
                             ![w].failedCount = IF err THEN @ + 1 ELSE @,
                             ![w].processedCount = IF err THEN @ ELSE @ + 1,
                             ![w].pc = IF err THEN "count" ELSE "stats_pt"]
    /\ UNCHANGED <<stp, sj, jobCount, notPoolVars>>

\* TransactionStats.UpdateStats: s.mu.Lock() and the read of s.TotalProcessed++
UpdateStatsRead(w) ==
    /\ wk[w].pc \in {"stats_pt", "stats"}
    /\ pool.stats.mu = "none"
    /\ pool' = [pool EXCEPT !.stats.mu = w]
    /\ wk' = [wk EXCEPT ![w].read = pool.stats.TotalProcessed,
                        ![w].pc = IF wk[w].pc = "stats_pt" THEN "write_pt" ELSE "write"]
    /\ UNCHANGED <<stp, sj, jobCount, notPoolVars>>

\* TransactionStats.UpdateStats: the write of s.TotalProcessed++ and the deferred
\* s.mu.Unlock(); after the call in start the loop takes the next job
UpdateStatsWrite(w) ==
    /\ wk[w].pc \in {"write_pt", "write"}
    /\ pool' = [pool EXCEPT !.stats.TotalProcessed = wk[w].read + 1, !.stats.mu = "none"]
    /\ wk' = [wk EXCEPT ![w].pc = IF wk[w].pc = "write_pt" THEN "count" ELSE "range",
                        ![w].job = IF wk[w].pc = "write_pt" THEN @ ELSE 0,
                        ![w].err = IF wk[w].pc = "write_pt" THEN @ ELSE FALSE,
                        ![w].read = 0]
    /\ UNCHANGED <<stp, sj, jobCount, notPoolVars>>

\* TransactionWorker.start: the atomic.AddUint64 calls after processTransaction, on
\* the counter of the worker and on the field of the shared stats, without s.mu
WorkerCount(w) ==
    /\ wk[w].pc = "count"
    /\ pool' = [pool EXCEPT !.stats.TotalFailed = IF wk[w].err THEN @ + 1 ELSE @,
                            !.stats.TotalProcessed = IF wk[w].err THEN @ ELSE @ + 1]
    /\ wk' = [wk EXCEPT ![w].failedCount = IF wk[w].err THEN @ + 1 ELSE @,
                        ![w].processedCount = IF wk[w].err THEN @ ELSE @ + 1,
                        ![w].pc = "stats"]
    /\ UNCHANGED <<stp, sj, jobCount, notPoolVars>>

\* TransactionWorker.start: the range loop ends when the queue is closed and empty;
\* the deferred wg.Done()
WorkerReturn(w) ==
    /\ wk[w].pc = "range"
    /\ pool.queue = <<>>
    /\ pool.closed
    /\ wk' = [wk EXCEPT ![w].pc = "returned"]
    /\ pool' = [pool EXCEPT !.wg = @ - 1]
    /\ UNCHANGED <<stp, sj, jobCount, notPoolVars>>

\* Stop: p.cancel()
StopCancel ==
    /\ stp = "idle"
    /\ stp' = "wait"
    /\ pool' = [pool EXCEPT !.ctxDone = TRUE]
    /\ UNCHANGED <<wk, sj, jobCount, notPoolVars>>

\* Stop: p.wg.Wait() returns
StopWait ==
    /\ stp = "wait"
    /\ pool.wg = 0
    /\ stp' = "close"
    /\ UNCHANGED <<pool, wk, sj, jobCount, notPoolVars>>

\* Stop: close(p.jobQueue); Stop returns
StopClose ==
    /\ stp = "close"
    /\ pool' = [pool EXCEPT !.closed = TRUE]
    /\ stp' = "returned"
    /\ UNCHANGED <<wk, sj, jobCount, notPoolVars>>

\* SubmitJob is called; down tells whether the context of the pool was cancelled before
SubmitJobBegin ==
    /\ sj.pc = "idle"
    /\ jobCount < MaxJobs
    /\ jobCount' = jobCount + 1
    /\ sj' = [pc |-> "select", job |-> jobCount + 1, down |-> pool.ctxDone, res |-> "none"]
    /\ UNCHANGED <<pool, wk, stp, notPoolVars>>

\* SubmitJob: case p.jobQueue <- job, taken when the queue has room
SubmitSend ==
    /\ sj.pc = "select"
    /\ ~pool.closed
    /\ Len(pool.queue) < QueueCap
    /\ pool' = [pool EXCEPT !.queue = Append(@, sj.job)]
    /\ sj' = [sj EXCEPT !.pc = "done", !.res = "enqueued"]
    /\ UNCHANGED <<wk, stp, jobCount, notPoolVars>>

\* SubmitJob: case p.jobQueue <- job on a closed queue: the send panics
SubmitSendClosed ==
    /\ sj.pc = "select"
    /\ pool.closed
    /\ sj' = [sj EXCEPT !.pc = "done", !.res = "panic"]
    /\ UNCHANGED <<pool, wk, stp, jobCount, notPoolVars>>

\* SubmitJob: case <-p.ctx.Done()
SubmitDone ==
    /\ sj.pc = "select"
    /\ pool.ctxDone
    /\ sj' = [sj EXCEPT !.pc = "done", !.res = "dropped"]
    /\ UNCHANGED <<pool, wk, stp, jobCount, notPoolVars>>

\* SubmitJob has returned (or its goroutine has panicked)
SubmitJobReturn ==
    /\ sj.pc = "done"
    /\ sj' = IdleSubmit
    /\ UNCHANGED <<pool, wk, stp, jobCount, notPoolVars>>

InitPool ==
    /\ pool = NewTransactionWorkerPool
    /\ wk = [w \in PoolWorkers |-> NewTransactionWorker("new")]
    /\ stp = "idle"
    /\ sj = IdleSubmit
    /\ jobCount = 0

NextPool ==
    \/ PoolStart
    \/ \E w \in PoolWorkers :
         \/ WorkerReceive(w)
         \/ WorkerProcess(w)
         \/ UpdateStatsRead(w)
         \/ UpdateStatsWrite(w)
         \/ WorkerCount(w)
         \/ WorkerReturn(w)
    \/ StopCancel
    \/ StopWait
    \/ StopClose
    \/ SubmitJobBegin
    \/ SubmitSend
    \/ SubmitSendClosed
    \/ SubmitDone
    \/ SubmitJobReturn

\* the Go scheduler runs every goroutine that can take a step
FairPool ==
    /\ \A w \in PoolWorkers : WF_vars(WorkerReceive(w) \/ WorkerProcess(w) \/ UpdateStatsRead(w)
                                    \/ UpdateStatsWrite(w) \/ WorkerCount(w)
                                    \/ WorkerReturn(w))
    /\ WF_vars(StopWait \/ StopClose)
    /\ WF_vars(SubmitSend \/ SubmitSendClosed \/ SubmitDone \/ SubmitJobReturn)

(***************************************************************************)
(* Database router (package database, DatabaseCluster)                     *)
(***************************************************************************)
\* the configured nodes: a master with two slaves, or a master with two read replicas;
\* a handle is named after the server it is connected to
NodeNames == {"m", "s1", "s2"}

ReadNames == {"r1", "r2"}

AllNodes == NodeNames \cup ReadNames

Node(name, role, weight) == [Name |-> name, Role |-> role, Weight |-> weight, IsActive |-> TRUE]

NoCluster ==
    [made |-> FALSE, FailoverEnabled |-> FALSE, MasterNode |-> Node("m", "master", 1),
     SlaveNodes |-> <<>>, ReadReplicas |-> <<>>, masterDB |-> "m", slaveDBs |-> <<>>,
     readDBs |-> <<>>,
     prevMaster |-> "m", prevDB |-> "m", failovers |-> 0]

\* the arguments and position of a checkNodeHealth goroutine
CheckArgs ==
    [node : AllNodes, db : AllNodes, nodeType : {"master", "slave", "read_replica"},
     pc : {"ping", "failover"}]

NoHandle == [call |-> "none", handle |-> "none", active |-> {}, master |-> "none"]

\* the names of the slaves whose IsActive flag is set
ActiveSlaves(c) ==
    {c.SlaveNodes[i].Name : i \in {j \in 1..Len(c.SlaveNodes) : c.SlaveNodes[j].IsActive}}

\* the first node of the list with the given name, 0 when there is none
FirstNamed(nodes, name) ==
    IF \E i \in 1..Len(nodes) : nodes[i].Name = name
    THEN CHOOSE i \in 1..Len(nodes) :
            /\ nodes[i].Name = name
            /\ \A j \in 1..(i - 1) : nodes[j].Name # name
    ELSE 0

\* updateNodeStatus, one critical section of c.mu
updateNodeStatus(c, nodeName, isActive) ==
    LET i == FirstNamed(c.SlaveNodes, nodeName)
        r == FirstNamed(c.ReadReplicas, nodeName)
    IN  [c EXCEPT !.MasterNode = IF @.Name = nodeName THEN [@ EXCEPT !.IsActive = isActive] ELSE @,
                  !.SlaveNodes = IF i = 0 THEN @ ELSE [@ EXCEPT ![i].IsActive = isActive],
                  !.ReadReplicas = IF r = 0 THEN @ ELSE [@ EXCEPT ![r].IsActive = isActive]]

\* triggerFailover: the loop choosing bestSlave; 0 stands for nil
bestSlave(nodes) ==
    IF \E i \in 1..Len(nodes) : nodes[i].IsActive
    THEN CHOOSE i \in 1..Len(nodes) :
            /\ nodes[i].IsActive
            /\ \A j \in 1..Len(nodes) : nodes[j].IsActive =>
                  \/ nodes[j].Weight < nodes[i].Weight
                  \/ nodes[j].Weight = nodes[i].Weight /\ i <= j
    ELSE 0

\* triggerFailover, one critical section of c.mu; connected tells whether connectToNode
\* returned a handle
triggerFailover(c, connected) ==
    LET b == bestSlave(c.SlaveNodes)
    IN  IF b = 0 THEN c
        ELSE [c EXCEPT !.MasterNode = [c.SlaveNodes[b] EXCEPT !.Role = "master"],
                       !.masterDB = IF connected THEN c.SlaveNodes[b].Name ELSE @,
                       !.SlaveNodes = Append(@, [c.MasterNode EXCEPT !.Role = "slave"]),
                       !.prevMaster = c.MasterNode.Name,
                       !.prevDB = c.masterDB,
                       !.failovers = @ + 1]

\* NewDatabaseCluster: every node is connected
NewDatabaseCluster ==
    /\ ~dbc.made
    /\ \E fe \in BOOLEAN :
         dbc' = [NoCluster EXCEPT !.made = TRUE, !.FailoverEnabled = fe,
                                  !.SlaveNodes = <<Node("s1", "slave", 1), Node("s2", "slave", 2)>>,
                                  !.slaveDBs = <<"s1", "s2">>]
    /\ UNCHANGED <<up, checks, dbGot, dbTicks, dbFlips, notDbVars>>

\* NewDatabaseCluster with a master and two read replicas: a read replica whose connect
\* fails is skipped with a warning and gets no entry in readDBs
NewDatabaseClusterReadReplicas ==
    /\ ~dbc.made
    /\ \E connected \in SUBSET ReadNames :
         dbc' = [NoCluster EXCEPT
                    !.made = TRUE,
                    !.ReadReplicas = <<Node("r1", "read_replica", 1), Node("r2", "read_replica", 2)>>,
                    !.readDBs = SelectSeq(<<"r1", "r2">>, LAMBDA n : n \in connected)]
    /\ UNCHANGED <<up, checks, dbGot, dbTicks, dbFlips, notDbVars>>

\* the servers of the configured nodes
ClusterNodes(c) ==
    {c.MasterNode.Name} \cup {c.SlaveNodes[i].Name : i \in 1..Len(c.SlaveNodes)}
                       \cup {c.ReadReplicas[i].Name : i \in 1..Len(c.ReadReplicas)}

\* a database server goes down or comes back
ServerFlip ==
    /\ dbc.made
    /\ dbFlips < MaxFlips
    /\ dbFlips' = dbFlips + 1
    /\ \E n \in AllNodes :
         /\ n \in ClusterNodes(dbc)
         /\ up' = [up EXCEPT ![n] = ~@]
    /\ UNCHANGED <<dbc, checks, dbGot, dbTicks, notDbVars>>

\* GetMasterDB
GetMasterDB ==
    /\ dbc.made
    /\ dbGot' = [call |-> "master", handle |-> dbc.masterDB, active |-> ActiveSlaves(dbc),
                 master |-> dbc.masterDB]
    /\ UNCHANGED <<dbc, up, checks, dbTicks, dbFlips, notDbVars>>

\* GetSlaveDB: the index is the clock modulo len(c.slaveDBs)
GetSlaveDB ==
    /\ dbc.made
    /\ \E h \in IF Len(dbc.slaveDBs) = 0 THEN {dbc.masterDB}
                ELSE {dbc.slaveDBs[i] : i \in 1..Len(dbc.slaveDBs)} :
         dbGot' = [call |-> "slave", handle |-> h, active |-> ActiveSlaves(dbc),
                   master |-> dbc.masterDB]
    /\ UNCHANGED <<dbc, up, checks, dbTicks, dbFlips, notDbVars>>

\* GetReadDB: the sum of the weights of the active nodes among the first i read replicas
RECURSIVE ActiveWeight(_, _)
ActiveWeight(nodes, i) ==
    IF i = 0 THEN 0
    ELSE ActiveWeight(nodes, i - 1) + (IF nodes[i].IsActive THEN nodes[i].Weight ELSE 0)

\* GetReadDB: the position at which the scan over c.config.ReadReplicas returns
Covering(nodes, index) ==
    CHOOSE i \in 1..Len(nodes) :
        /\ nodes[i].IsActive
        /\ ActiveWeight(nodes, i) > index
        /\ \A j \in 1..(i - 1) : ~(nodes[j].IsActive /\ ActiveWeight(nodes, j) > index)

\* GetReadDB: the index is the clock modulo totalWeight; c.readDBs[i] outside of the slice
\* is the index out of range panic
GetReadDB ==
    /\ dbc.made
    /\ LET nodes == dbc.ReadReplicas
           totalWeight == ActiveWeight(nodes, Len(nodes))
       IN  IF Len(dbc.readDBs) = 0 \/ totalWeight = 0
           THEN \E h \in IF Len(dbc.slaveDBs) = 0 THEN {dbc.masterDB}
                          ELSE {dbc.slaveDBs[i] : i \in 1..Len(dbc.slaveDBs)} :
                   dbGot' = [call |-> "read", handle |-> h, active |-> ActiveSlaves(dbc),
                             master |-> dbc.masterDB, totalWeight |-> totalWeight,
                             delegated |-> TRUE, covering |-> "none"]
           ELSE \E index \in 0..(totalWeight - 1) :
                   LET i == Covering(nodes, index)
                   IN  dbGot' = [call |-> "read",
                                 handle |-> IF i <= Len(dbc.readDBs) THEN dbc.readDBs[i]
                                            ELSE "panic",
                                 active |-> ActiveSlaves(dbc), master |-> dbc.masterDB,
                                 totalWeight |-> totalWeight, delegated |-> FALSE,
                                 covering |-> nodes[i].Name]
    /\ UNCHANGED <<dbc, up, checks, dbTicks, dbFlips, notDbVars>>

\* startHealthMonitoring, performHealthCheck: a tick starts one checkNodeHealth goroutine
\* for the master, one per slave handle and one per read replica handle. MasterNode and masterDB are read without
\* c.mu, so the tick sees the value of before or of after a concurrent failover.
\* Goroutines with equal arguments at the same position are kept once.
performHealthCheck ==
    /\ dbc.made
    /\ dbTicks < MaxTicks
    /\ dbTicks' = dbTicks + 1
    /\ \E mn \in {dbc.MasterNode.Name, dbc.prevMaster}, md \in {dbc.masterDB, dbc.prevDB} :
         checks' = checks \cup {[node |-> mn, db |-> md, nodeType |-> "master", pc |-> "ping"]}
                          \cup {[node |-> dbc.SlaveNodes[i].Name, db |-> dbc.slaveDBs[i],
                                 nodeType |-> "slave", pc |-> "ping"] :
                                   i \in 1..Len(dbc.slaveDBs)}
                          \cup {[node |-> dbc.ReadReplicas[i].Name, db |-> dbc.readDBs[i],
                                 nodeType |-> "read_replica", pc |-> "ping"] :
                                   i \in 1..Len(dbc.readDBs)}
    /\ UNCHANGED <<dbc, up, dbGot, dbFlips, notDbVars>>

\* checkNodeHealth: the ping of the handle and updateNodeStatus of the node
CheckPing(k) ==
    /\ k \in checks
    /\ k.pc = "ping"
    /\ dbc' = updateNodeStatus(dbc, k.node, up[k.db])
    /\ checks' = IF ~up[k.db] /\ dbc.FailoverEnabled /\ k.nodeType = "master"
                 THEN (checks \ {k}) \cup {[k EXCEPT !.pc = "failover"]}
                 ELSE checks \ {k}
    /\ UNCHANGED <<up, dbGot, dbTicks, dbFlips, notDbVars>>

\* checkNodeHealth: triggerFailover; connectToNode succeeds when the server is up
CheckFailover(k) ==
    /\ k \in checks
    /\ k.pc = "failover"
    /\ dbc.failovers < MaxFailovers
    /\ LET b == bestSlave(dbc.SlaveNodes)
       IN  dbc' = triggerFailover(dbc, b # 0 /\ up[dbc.SlaveNodes[b].Name])
    /\ checks' = checks \ {k}
    /\ UNCHANGED <<up, dbGot, dbTicks, dbFlips, notDbVars>>

InitDb ==
    /\ dbc = NoCluster
    /\ up = [n \in AllNodes |-> TRUE]
    /\ checks = {}
    /\ dbGot = NoHandle
    /\ dbTicks = 0
    /\ dbFlips = 0

NextDb ==
    \/ NewDatabaseCluster
    \/ ServerFlip
    \/ GetMasterDB
    \/ GetSlaveDB
    \/ performHealthCheck
    \/ \E k \in CheckArgs :
         \/ CheckPing(k)
         \/ CheckFailover(k)

\* a cluster with read replicas; its failover is disabled, so no check reaches triggerFailover
NextDbRead ==
    \/ NewDatabaseClusterReadReplicas
    \/ ServerFlip
    \/ GetMasterDB
    \/ GetReadDB
    \/ performHealthCheck
    \/ \E k \in CheckArgs : CheckPing(k)

(***************************************************************************)
(* transactionService.ProcessTransaction and CancelTransaction             *)
(*                                                                         *)
(* One row of the transactions table, created pending by CreateTransaction *)
(* for a transfer of 1 from u1 to u2.  Every repository call is one step;  *)
(* transactionRepo.Update writes the state of the copy the caller holds.   *)
(***************************************************************************)
PtWorkers == {"t1", "t2"}

\* domain.NewTransaction(fromUserID, toUserID, amount, description)
PendingTransaction == [FromUserID |-> "u1", ToUserID |-> "u2", Amount |-> 1]

IdleProcess == [pc |-> "idle", state |-> "", fromBal |-> 0, toBal |-> 0, err |-> "", res |-> ""]

\* a worker calls ProcessTransaction for the row
ProcessTransactionBegin(w) ==
    /\ pw[w].pc = "idle"
    /\ ptOps < MaxProcessOps
    /\ ptOps' = ptOps + 1
    /\ pw' = [pw EXCEPT ![w] = [IdleProcess EXCEPT !.pc = "get"]]
    /\ UNCHANGED <<ptx, pbal, pcn, transfers, notPtVars>>

\* ProcessTransaction: transactionRepo.GetByID and the check of the state
ProcessTransactionGet(w) ==
    /\ pw[w].pc = "get"
    /\ pw' = [pw EXCEPT ![w] =
                IF ptx # "pending" THEN [@ EXCEPT !.pc = "done", !.res = "ErrInvalidState"]
                ELSE [@ EXCEPT !.pc = "getfrom", !.state = ptx]]
    /\ UNCHANGED <<ptx, pbal, pcn, transfers, ptOps, notPtVars>>

\* TransferFunds: balanceRepo.GetByUserID(fromUserID)
ProcessTransferGetFrom(w) ==
    /\ pw[w].pc = "getfrom"
    /\ pw' = [pw EXCEPT ![w] = [@ EXCEPT !.pc = "getto", !.fromBal = pbal[PendingTransaction.FromUserID]]]
    /\ UNCHANGED <<ptx, pbal, pcn, transfers, ptOps, notPtVars>>

\* TransferFunds: balanceRepo.GetByUserID(toUserID), fromBalance.Subtract, toBalance.Add
ProcessTransferGetTo(w) ==
    /\ pw[w].pc = "getto"
    /\ LET s == BalanceSubtract(pw[w].fromBal, PendingTransaction.Amount)
           a == BalanceAdd(pbal[PendingTransaction.ToUserID], PendingTransaction.Amount)
       IN  pw' = [pw EXCEPT ![w] =
                    IF s.err # "" \/ a.err # ""
                    THEN [@ EXCEPT !.pc = "update", !.state = "failed",
                                   !.err = IF s.err # "" THEN s.err ELSE a.err]
                    ELSE [@ EXCEPT !.pc = "updatefrom", !.fromBal = s.amount, !.toBal = a.amount]]
    /\ UNCHANGED <<ptx, pbal, pcn, transfers, ptOps, notPtVars>>

\* TransferFunds: balanceRepo.Update(fromBalance)
ProcessTransferUpdateFrom(w) ==
    /\ pw[w].pc = "updatefrom"
    /\ pbal' = [pbal EXCEPT ![PendingTransaction.FromUserID] = pw[w].fromBal]
    /\ pw' = [pw EXCEPT ![w].pc = "updateto"]
    /\ UNCHANGED <<ptx, pcn, transfers, ptOps, notPtVars>>

\* TransferFunds: balanceRepo.Update(toBalance) and the return of nil;
\* ProcessTransaction sets State = completed on its copy
ProcessTransferUpdateTo(w) ==
    /\ pw[w].pc = "updateto"
    /\ pbal' = [pbal EXCEPT ![PendingTransaction.ToUserID] = pw[w].toBal]
    /\ transfers' = transfers + 1
    /\ pw' = [pw EXCEPT ![w] = [@ EXCEPT !.pc = "update", !.state = "completed"]]
    /\ UNCHANGED <<ptx, pcn, ptOps, notPtVars>>

\* ProcessTransaction: transactionRepo.Update(transaction) and the return
ProcessTransactionUpdate(w) ==
    /\ pw[w].pc = "update"
    /\ ptx' = pw[w].state
    /\ pw' = [pw EXCEPT ![w] = [@ EXCEPT !.pc = "done", !.res = pw[w].err]]
    /\ UNCHANGED <<pbal, pcn, transfers, ptOps, notPtVars>>

\* the worker goes on with its next job
ProcessTransactionReturn(w) ==
    /\ pw[w].pc = "done"
    /\ pw' = [pw EXCEPT ![w] = IdleProcess]
    /\ UNCHANGED <<ptx, pbal, pcn, transfers, ptOps, notPtVars>>

\* CancelTransaction is called for the row
CancelTransactionBegin ==
    /\ pcn.pc = "idle"
    /\ ptOps < MaxProcessOps
    /\ ptOps' = ptOps + 1
    /\ pcn' = [IdleProcess EXCEPT !.pc = "get"]
    /\ UNCHANGED <<ptx, pbal, pw, transfers, notPtVars>>

\* CancelTransaction: transactionRepo.GetByID and the check of the state
CancelTransactionGet ==
    /\ pcn.pc = "get"
    /\ pcn' = IF ptx # "pending" THEN [pcn EXCEPT !.pc = "done", !.res = "ErrInvalidState"]
              ELSE [pcn EXCEPT !.pc = "update", !.state = "cancelled"]
    /\ UNCHANGED <<ptx, pbal, pw, transfers, ptOps, notPtVars>>

\* CancelTransaction: transactionRepo.Update(transaction) and the return
CancelTransactionUpdate ==
    /\ pcn.pc = "update"
    /\ ptx' = pcn.state
    /\ pcn' = [pcn EXCEPT !.pc = "done", !.res = ""]
    /\ UNCHANGED <<pbal, pw, transfers, ptOps, notPtVars>>

CancelTransactionReturn ==
    /\ pcn.pc = "done"
    /\ pcn' = IdleProcess
    /\ UNCHANGED <<ptx, pbal, pw, transfers, ptOps, notPtVars>>

InitProcess ==
    /\ ptx = "pending"
    /\ pbal = [u \in Users |-> IF u = PendingTransaction.FromUserID THEN 2 ELSE 0]
    /\ pw = [w \in PtWorkers |-> IdleProcess]
    /\ pcn = IdleProcess
    /\ transfers = 0
    /\ ptOps = 0

NextProcess ==
    \/ \E w \in PtWorkers :
         \/ ProcessTransactionBegin(w)
         \/ ProcessTransactionGet(w)
         \/ ProcessTransferGetFrom(w)
         \/ ProcessTransferGetTo(w)
         \/ ProcessTransferUpdateFrom(w)
         \/ ProcessTransferUpdateTo(w)
         \/ ProcessTransactionUpdate(w)
         \/ ProcessTransactionReturn(w)
    \/ CancelTransactionBegin
    \/ CancelTransactionGet
    \/ CancelTransactionUpdate
    \/ CancelTransactionReturn

Init ==
    InitLedger /\ InitEventStore /\ InitDomain /\ InitScheduled /\ InitBatch /\ InitBreaker
    /\ InitFallback /\ InitPool /\ InitDb /\ InitRequests
    /\ InitProcess

SpecLedger == Init /\ [][NextLedger]_vars

SpecLedgerFault == Init /\ [][NextLedgerFault]_vars

SpecLedgerRequests == Init /\ [][NextLedgerRequests]_vars

SpecEventStore == Init /\ [][NextEventStore]_vars

SpecDomain == Init /\ [][NextDomain]_vars

SpecScheduled == Init /\ [][NextScheduled]_vars

SpecScheduledSweeps == Init /\ [][NextScheduledSweeps]_vars

SpecBatch == Init /\ [][NextBatch]_vars

SpecBatchFault == Init /\ [][NextBatchFault]_vars

SpecBreaker == Init /\ [][NextBreaker]_vars

\* the Go scheduler runs every goroutine that can take a step, the ticker fires and
\* time passes
FairBreaker ==
    /\ \A g \in Callers : WF_vars(RunningStep(g))
    /\ WF_vars(CheckStateTransition \/ RunningStep(Monitor))
    /\ WF_vars(ClockTick)

SpecBreakerFair == Init /\ [][NextBreaker]_vars /\ FairBreaker

SpecBreakerResetFair ==
    Init /\ [][NextBreakerReset]_vars /\ FairBreaker
    /\ WF_vars(ResetLock \/ ResetCountsLock \/ LockCall(Admin))

SpecFallback == Init /\ [][NextFallback]_vars

SpecPool == Init /\ [][NextPool]_vars

SpecProcess == Init /\ [][NextProcess]_vars

SpecDb == Init /\ [][NextDb]_vars

SpecDbRead == Init /\ [][NextDbRead]_vars

SpecPoolFair == Init /\ [][NextPool]_vars /\ FairPool

(***************************************************************************)
(* Ledger properties                                                       *)
(***************************************************************************)

\* C1: after any sequence of Credit, Debit and Transfer calls, sequential or
\* concurrent, every persisted balance amount is >= 0.
Cex_C1_BalanceNonNegative == \A u \in Users : balances[u].amount >= 0

AllIdle == \A c \in Clients : cl[c].pc = "idle"

\* C2: mutations of one balance are serialized: once the calls have returned, each
\* balance equals the initial amount with every successful call applied in turn.
Cex_C2_NoLostUpdate == AllIdle => \A u \in Users : balances[u].amount = net[u]

\* C3: a ledger call that returns an error has changed no balance and left no
\* transaction row.
Cex_C3_ErrorLeavesNoMutation ==
    \A c \in Clients : (cl[c].pc = "done" /\ cl[c].res = "err") => cl[c].wrote = {}

(***************************************************************************)
(* Event store properties                                                  *)
(***************************************************************************)

\* C4: for every aggregate the versions of its stored events are 1..N, each once,
\* N being the number of its events, after any appends including concurrent ones.
Cex_C4_VersionsContiguous ==
    \A a \in AggregateIDs :
        \A v \in 1..Len(store[a]) :
            Cardinality({i \in 1..Len(store[a]) : store[a][i].version = v}) = 1

\* C5: an append that finds the stored maximum version different from expectedVersion
\* fails with ConcurrentModification and inserts nothing; so does every append that
\* re-sends a tuple whose events are already stored.
Thm_C5_MismatchFails ==
    \A w \in Writers :
        /\ wr[w].pc = "insert" => wr[w].observed = wr[w].expected
        /\ (wr[w].pc = "done" /\ (wr[w].observed # wr[w].expected \/ wr[w].resend))
              => (wr[w].res = "ConcurrentModification" /\ wr[w].inserted = 0)

\* A tuple is re-sent after it was appended, and the second call has failed.
Wit_C5_ResendFailed ==
    \E w \in Writers :
        /\ wr[w].pc = "done" /\ wr[w].resend
        /\ wr[w].res = "ConcurrentModification"
        /\ Len(store[wr[w].agg]) = wr[w].n

\* C6: of two concurrent appends to one aggregate with the same expectedVersion at
\* most one succeeds.
Cex_C6_AtMostOneSucceeds ==
    \A w1, w2 \in Writers :
        (/\ w1 # w2
         /\ wr[w1].pc = "done" /\ wr[w2].pc = "done"
         /\ wr[w1].agg = wr[w2].agg /\ wr[w1].expected = wr[w2].expected)
        => ~(wr[w1].res = "ok" /\ wr[w2].res = "ok")

(***************************************************************************)
(* Transaction state and replay properties                                 *)
(***************************************************************************)
TerminalStates == {"completed", "failed", "cancelled"}

\* C7: an UpdateState call changes the status only from pending to completed, failed
\* or cancelled; every other call is rejected with ErrInvalidState and leaves the
\* status as it was, so the three terminal states are never left.
Cex_C7_StatusDag ==
    /\ \A t \in Transactions :
         /\ txn[t].res = "ok" => (txn[t].from = "pending" /\ txn[t].status \in TerminalStates)
         /\ txn[t].res = "ErrInvalidState" => txn[t].status = txn[t].from
    /\ \A o \in AggObjs :
         /\ obj[o].upd = "ok" => (obj[o].from = "pending" /\ obj[o].status \in TerminalStates)
         /\ obj[o].upd = "ErrInvalidState" => obj[o].status = obj[o].from

\* C8: replaying the events of an aggregate succeeds and gives the state of the
\* aggregate that emitted them: LoadFromHistory over the events it holds in memory
\* when none is saved yet, GetBalance or GetTransaction when all of them are saved.
Cex_C8_ReplayEqualsState ==
    \A o \in AggObjs :
        obj[o].kind # "none" =>
            /\ obj[o].version = 0 =>
                 LoadFromHistory(obj[o].kind, ZeroAggregate, obj[o].uncommitted)
                    = [err |-> "", amount |-> obj[o].amount, status |-> obj[o].status]
            /\ (obj[o].uncommitted = <<>> /\ obj[o].version > 0) =>
                 GetAggregate(obj[o].kind, store, obj[o].id)
                    = [err |-> "", amount |-> obj[o].amount, status |-> obj[o].status]

(***************************************************************************)
(* Scheduled transaction properties                                        *)
(***************************************************************************)
Executing == {"getto", "update", "updateto", "create", "succeed"}

Cex_C10_RetryOrCancel ==
    \A k \in Sweepers :
        (sw[k].pc = "loop" /\ sw[k].outcome = "err") =>
            /\ sw[k].cur.retryCount = sw[k].retry0 + 1
            /\ sw[k].cur.status =
                 IF sw[k].cur.retryCount >= sw[k].cur.maxRetries THEN "cancelled" ELSE "failed"

\* A due scheduled transaction with a failed execution behind it and retries left
RetryIsDue(i) ==
    /\ sched[i].exists
    /\ sched[i].status # "completed"
    /\ sched[i].retryCount >= 1
    /\ sched[i].retryCount < sched[i].maxRetries
    /\ sched[i].scheduledAt <= now

\* C11: a sweep that starts while a scheduled transaction has a failed execution behind
\* it and retry_count < max_retries takes that scheduled transaction up again (nobody
\* having cancelled it).
Cex_C11_FailedIsRetried ==
    [][\A k \in Sweepers :
          (sw[k].pc = "idle" /\ sw'[k].pc = "loop") =>
             \A i \in SchedIDs :
                RetryIsDue(i) => \E j \in 1..Len(sw'[k].list) : sw'[k].list[j].id = i]_vars

\* the ledger operation of the row sweep k took last has returned nil
AppliedBy(k) == sw[k].pc = "succeed" \/ (sw[k].pc = "loop" /\ sw[k].outcome = "ok")

\* C36: the ledger operation of a scheduled transaction is applied successfully at most
\* once: two sweeps never both apply the operation of the same row.
Cex_C36_ExecutedAtMostOnce ==
    \A k1, k2 \in Sweepers :
        (k1 # k2 /\ AppliedBy(k1) /\ AppliedBy(k2)) => sw[k1].id # sw[k2].id

(***************************************************************************)
(* Batch transaction properties                                            *)
(***************************************************************************)

\* C12: a batch whose status is completed has only items whose status is completed.
Cex_C12_CompletedBatchItems ==
    \A b \in BatchIDs :
        batch[b].status = "completed" =>
            \A j \in 1..Len(items[b]) : items[b][j].status = "completed"

\* C13: the status of a batch becomes cancelled only from pending.
Cex_C13_CancelledOnlyFromPending ==
    [][\A b \in BatchIDs :
          (batch'[b].status = "cancelled" /\ batch[b].status # "cancelled")
             => batch[b].status = "pending"]_vars

\* C14: when CreateBatchTransaction has returned a batch, its total_amount is the sum
\* of the amounts of the items stored for it.
Cex_C14_TotalIsSumOfItems ==
    (bc.pc = "done" /\ bc.res = "ok") =>
        bc.total = SumAmounts([j \in 1..Len(items[bc.id]) |-> items[bc.id][j].amount])

(***************************************************************************)
(* Circuit breaker properties                                              *)
(***************************************************************************)

Thm_C16_OpenNotReady ==
    [][\A g \in Callers :
          (cb.state = "OPEN" /\ clock - cb.lastStateChange < Timeout) =>
              /\ ~(th[g].ready # "true" /\ th'[g].ready = "true")
              /\ (th[g].pc = "switch" /\ th'[g].pc # "switch") => th'[g].ready = "false"]_vars

\* Ready has returned false on a breaker that is OPEN before its timeout
Wit_C16_RejectedWhileOpen ==
    \E g \in Callers :
        /\ th[g].pc = "rejected" /\ th[g].ready = "false"
        /\ cb.state = "OPEN" /\ clock - cb.lastStateChange < Timeout

\* C17: when Ready has returned false, Execute returns the breaker-open error and has
\* not invoked fn.
Thm_C17_NotReadyFailsFast ==
    \A g \in Callers :
        th[g].ready = "false" =>
            /\ ~th[g].invoked
            /\ th[g].pc \in {"rejected", "done"}
            /\ th[g].pc = "done" => th[g].res = "BreakerOpen"

\* Execute has returned the breaker-open error without a call of fn
Wit_C17_Rejected ==
    \E g \in Callers :
        th[g].pc = "done" /\ th[g].ready = "false" /\ th[g].res = "BreakerOpen" /\ ~th[g].invoked

\* C18: a call of Ready that finds the breaker OPEN with clock - lastStateChange >=
\* Timeout moves the breaker to HALF_OPEN and is admitted.
Cex_C18_LazyHalfOpen ==
    \A g \in Callers :
        (th[g].pc = "half_lock") ~> (th[g].ready = "true")

\* C19: when a successful call in HALF_OPEN has brought consecutive_successes to
\* success_threshold, the breaker moves to CLOSED.
Cex_C19_ClosesOnSuccesses ==
    \A g \in Callers :
        (th[g].pc = "closed_lock") ~> (cb.state = "CLOSED")

\* C20: a call whose failure is recorded while the breaker is HALF_OPEN moves the
\* breaker to OPEN before it returns.
Cex_C20_HalfOpenFailureOpens ==
    \A g \in Callers :
        (th[g].pc = "done" /\ th[g].invoked /\ th[g].err /\ th[g].recState = "HALF_OPEN")
            => th[g].trans = "open"

\* C21: of the calls admitted by Ready during one HALF_OPEN period, at most
\* half_open_max_requests invoke fn.
Cex_C21_BoundedTrialCalls ==
    \A p \in 1..(MaxClock + 1) :
        Cardinality({g \in Callers : th[g].invoked /\ th[g].admit = p}) <= HalfOpenMaxRequests

\* C37: every call of Execute, Reset or ForceClose returns: no goroutine stays inside a
\* call for ever, waiting for cb.mu or cb.counts.mu.
Cex_C37_EveryCallReturns ==
    \A g \in Callers \cup {Admin} : (th[g].pc # "idle") ~> (th[g].pc = "idle")

(***************************************************************************)
(* Fallback executor properties                                            *)
(***************************************************************************)

\* C22: under the sequential strategy the primary is invoked first and then the fallbacks
\* in order, only while every call so far has failed; the strategy returns success exactly
\* when its last call succeeded, and AllFallbacksFailed exactly when the primary and all
\* fallbacks were invoked and failed.
Thm_C22_SequentialOrder ==
    \A x \in Executors :
        (fcfg.strategy = "sequential" /\ ~fx[x].hit) =>
            LET calls == fx[x].calls IN
            /\ \A idx \in 1..Len(calls) :
                 /\ calls[idx].by = idx - 1
                 /\ idx < Len(calls) => ~calls[idx].ok
            /\ fx[x].pc \in {"after", "done"} =>
                 /\ calls # <<>>
                 /\ fx[x].res = "ok" <=> calls[Len(calls)].ok
                 /\ fx[x].res = "AllFallbacksFailed" <=>
                      (Len(calls) = fx[x].n + 1 /\ ~calls[Len(calls)].ok)
                 /\ fx[x].res \in {"ok", "AllFallbacksFailed", "Cancelled"}
                 /\ fx[x].res = "Cancelled" => fx[x].cancelled

\* the primary and the first fallback have failed and the second fallback has succeeded
Wit_C22_SecondFallbackSucceeds ==
    \E x \in Executors :
        /\ fcfg.strategy = "sequential"
        /\ fx[x].pc = "done" /\ fx[x].res = "ok"
        /\ Len(fx[x].calls) = 3
        /\ fx[x].result = [by |-> 2, ok |-> TRUE]

\* C23: with caching enabled, a successful Execute stores the value it returns under its
\* key, an entry stays in the cache while clock - timestamp <= ttl, and an Execute that
\* looks its key up while such an entry is there returns the value of the entry without
\* a call of the primary or of a fallback.
Thm_C23_CacheHitWithinTTL ==
    [][/\ \A x \in Executors :
            (fx[x].pc = "after" /\ fx'[x].pc = "done" /\ fx[x].res = "ok"
             /\ fcfg.EnableCaching) =>
                /\ fcache'[fx[x].key].exists
                /\ fcache'[fx[x].key].data = fx[x].result
                /\ fcache'[fx[x].key].ts = ftime
       /\ \A k \in Keys :
            (fcache[k].exists /\ ftime - fcache[k].ts <= fcache[k].ttl) => fcache'[k].exists
       /\ \A x \in Executors :
            (/\ fx[x].pc = "getread" /\ fx'[x].pc # "getread"
             /\ fcache[fx[x].key].exists
             /\ ftime - fcache[fx[x].key].ts <= fcache[fx[x].key].ttl) =>
                /\ fx'[x].pc = "done"
                /\ fx'[x].res = "ok"
                /\ fx'[x].result = fcache[fx[x].key].data
                /\ fx'[x].calls = <<>>]_vars

\* an Execute has returned the value stored by an earlier Execute, without any call
Wit_C23_ServedFromCache ==
    \E x \in Executors :
        /\ fx[x].pc = "done" /\ fx[x].hit /\ fx[x].res = "ok"
        /\ fx[x].calls = <<>>
        /\ fx[x].result = fcache[fx[x].key].data
        /\ fx[x].result.by >= 0

\* C24: when a strategy has returned no error, the value Execute returns and stores is
\* the value of a call that succeeded.
Cex_C24_ValueOfSuccessfulCall ==
    \A x \in Executors :
        (fx[x].pc \in {"after", "done"} /\ ~fx[x].hit /\ fx[x].res = "ok") => fx[x].result.ok

\* C25: the parallel strategy returns AllFallbacksFailed or Timeout only if it has seen no
\* fallback succeed.
Cex_C25_ParallelFirstSuccess ==
    \A x \in Executors :
        (/\ fcfg.strategy = "parallel"
         /\ fx[x].pc \in {"after", "done"}
         /\ fx[x].res \in {"AllFallbacksFailed", "Timeout"}) => fx[x].successCount = 0

\* C26: the cache map changes only in a step during which no goroutine holds the lock
\* of the cache for reading.
Cex_C26_NoWriteUnderReadLock ==
    [][fcache' # fcache => fmu.r = {}]_vars

(***************************************************************************)
(* Worker pool properties                                                  *)
(***************************************************************************)

\* C27: a call of Stop that has cancelled the context of the pool returns.
Cex_C27_StopReturns ==
    (stp = "wait") ~> (stp = "returned")

\* C28: a job submitted after the context of the pool was cancelled is dropped: SubmitJob
\* neither enqueues it nor panics, and no worker processes it.
Cex_C28_SubmitAfterStopDrops ==
    (sj.pc = "done" /\ sj.down) =>
        /\ sj.res = "dropped"
        /\ sj.job \notin pool.processed
        /\ \A j \in 1..Len(pool.queue) : pool.queue[j] # sj.job

(***************************************************************************)
(* Database router properties                                              *)
(***************************************************************************)

\* C29: a failover that finds an active slave makes, in one step, the active slave of the
\* greatest weight the master and the old master a slave, and after it GetMasterDB returns
\* a handle connected to the node recorded as master.
Cex_C29_FailoverPromotesBestSlave ==
    [][(dbc'.failovers > dbc.failovers) =>
          /\ dbc'.MasterNode.Name \in ActiveSlaves(dbc)
          /\ \A i \in 1..Len(dbc.SlaveNodes) :
                dbc.SlaveNodes[i].IsActive => dbc.SlaveNodes[i].Weight <= dbc'.MasterNode.Weight
          /\ dbc'.MasterNode.Role = "master"
          /\ \E i \in 1..Len(dbc'.SlaveNodes) :
                /\ dbc'.SlaveNodes[i].Name = dbc.MasterNode.Name
                /\ dbc'.SlaveNodes[i].Role = "slave"
          /\ dbc'.masterDB = dbc'.MasterNode.Name]_vars

\* C30: GetSlaveDB returns the handle of a slave whose IsActive flag is set when there is
\* one, and the master handle when no slave is active.
Cex_C30_ReplicaIsActive ==
    (dbGot.call = "slave") =>
        IF dbGot.active # {} THEN dbGot.handle \in dbGot.active ELSE dbGot.handle = dbGot.master

\* C31: when GetReadDB does not delegate to GetSlaveDB it returns the handle of the active
\* read replica whose cumulative-weight slice covers the index, never another handle and
\* never an index out of range; it delegates when the active total weight is 0.
Cex_C31_ReadReplicaCoversIndex ==
    (dbGot.call = "read") =>
        /\ dbGot.totalWeight = 0 => dbGot.delegated
        /\ ~dbGot.delegated => dbGot.handle = dbGot.covering

(***************************************************************************)
(* Request boundary properties                                             *)
(***************************************************************************)

\* C32: a Credit, Debit or Transfer whose amount is <= 0 is rejected and changes nothing:
\* no call of the ledger service runs with such an amount.
Cex_C32_NonPositiveAmountRejected ==
    \A c \in Clients :
        (cl[c].pc # "idle" /\ cl[c].svc = "TransactionService" /\ cl[c].amt <= 0) =>
            /\ cl[c].pc = "done"
            /\ cl[c].res = "rejected"
            /\ cl[c].wrote = {}

RECURSIVE TotalOf(_, _)
TotalOf(b, us) ==
    IF us = {} THEN 0
    ELSE LET u == CHOOSE x \in us : TRUE IN b[u].amount + TotalOf(b, us \ {u})

\* C33: a Transfer or TransferFunds call that ran alone, whether it returned nil or an
\* error and also when payer and payee are the same user, leaves the sum of all balances
\* as it was.
Cex_C33_TransferConservesMoney ==
    \A c \in Clients :
        (opCount = 1 /\ cl[c].pc = "done" /\ cl[c].op \in {"Transfer", "TransferFunds"}) =>
            TotalOf(balances, Users) = TotalOf(InitialBalances, Users)

(***************************************************************************)
(* ProcessTransaction properties                                           *)
(***************************************************************************)

\* C34: the funds of a pending transaction are transferred at most once, whichever
\* workers process it and however often.
Cex_C34_TransferredAtMostOnce == transfers <= 1

\* C35: when every call has returned and the transaction is cancelled, no funds were
\* transferred for it.
Cex_C35_CancelledMovedNoFunds ==
    (ptx = "cancelled" /\ pcn.pc = "idle" /\ \A w \in PtWorkers : pw[w].pc = "idle") =>
        /\ transfers = 0
        /\ pbal = [u \in Users |-> IF u = PendingTransaction.FromUserID THEN 2 ELSE 0]

\* C38: once half_open_max_requests calls have been counted in HALF_OPEN and every
\* call has returned, the breaker leaves HALF_OPEN (for CLOSED or for OPEN).
Cex_C38_LeavesHalfOpen ==
    (/\ cb.state = "HALF_OPEN"
     /\ cb.counts.Requests >= HalfOpenMaxRequests
     /\ \A g \in Callers : th[g].pc = "idle")
        ~> (cb.state # "HALF_OPEN")

Cex_C40_CountedOnce ==
    (\A w \in PoolWorkers : wk[w].pc \in {"new", "range", "returned"})
        => /\ pool.stats.TotalProcessed = pool.succeeded
           /\ pool.stats.TotalFailed = pool.failed

====
